---------------------------- MODULE Spec2Model ----------------------------
(***************************************************************************)
(* Dual-network topology engine of LAMMPS-NetMC, src/src/linked_network.cpp *)
(*                                                                         *)
(* State: networks A (atoms) and B (rings) with their adjacency lists, the  *)
(* cached node and edge distributions of both, and the coordinate array.    *)
(* Operations: the edge pickers, the move generators, the move applicators  *)
(* (switchCnx33, switchCnx44, switchCnx43, mixCnx) and the four Monte Carlo *)
(* step functions.  The geometry optimiser, the energy evaluators and the   *)
(* Metropolis object are collaborators outside the engine: what they return *)
(* is an input of the step, drawn from a small set.  networkT and the       *)
(* LAMMPS objects mirror network A for those collaborators and are left out.*)
(***************************************************************************)
EXTENDS Integers, Sequences, FiniteSets, TLC

VARIABLES
  nodesA,      \* networkA.nodes : id -> [netCnxs, dualCnxs, auxCnxs]
  nodesB,      \* networkB.nodes : id -> [netCnxs, dualCnxs, auxCnxs]
  nodeDistA,   \* networkA.nodeDistribution
  nodeDistB,   \* networkB.nodeDistribution
  edgeDistA,   \* networkA.edgeDistribution
  edgeDistB,   \* networkB.edgeDistribution
  crds,        \* LinkedNetwork::crds: the number of the step that wrote it
  cfg,         \* what construction and initialisation fixed
  steps,       \* step functions called so far
  pre,         \* networks, distributions and crds when the last step began
  last,        \* how the last step function ended
  evaluation   \* the evaluation of the move inside a LAMMPS step function

vars == <<nodesA, nodesB, nodeDistA, nodeDistB, edgeDistA, edgeDistB, crds,
          cfg, steps, pre, last, evaluation>>

(* ------------------------------ bounds -------------------------------- *)
\* Step functions called in one run.
MaxSteps == 2
\* Largest index of the distribution tables.
MaxDeg == 9

(* ------------------- networks loaded at construction ------------------ *)
\* Periodic hexagonal lattice of 12 rings and 24 atoms: every ring has six
\* distinct neighbours, and the rings at the two ends of a bond are distinct
\* and not adjacent.
Hex12A ==
    0 :> [netCnxs |-> <<17, 1, 23>>, dualCnxs |-> <<0, 1, 2>>, auxCnxs |-> <<>>] @@
    1 :> [netCnxs |-> <<0, 2, 8>>, dualCnxs |-> <<0, 3, 1>>, auxCnxs |-> <<>>] @@
    2 :> [netCnxs |-> <<19, 3, 1>>, dualCnxs |-> <<4, 3, 0>>, auxCnxs |-> <<>>] @@
    3 :> [netCnxs |-> <<2, 4, 10>>, dualCnxs |-> <<4, 5, 3>>, auxCnxs |-> <<>>] @@
    4 :> [netCnxs |-> <<21, 5, 3>>, dualCnxs |-> <<6, 5, 4>>, auxCnxs |-> <<>>] @@
    5 :> [netCnxs |-> <<4, 6, 12>>, dualCnxs |-> <<6, 7, 5>>, auxCnxs |-> <<>>] @@
    6 :> [netCnxs |-> <<23, 7, 5>>, dualCnxs |-> <<1, 7, 6>>, auxCnxs |-> <<>>] @@
    7 :> [netCnxs |-> <<6, 8, 14>>, dualCnxs |-> <<1, 8, 7>>, auxCnxs |-> <<>>] @@
    8 :> [netCnxs |-> <<1, 9, 7>>, dualCnxs |-> <<3, 8, 1>>, auxCnxs |-> <<>>] @@
    9 :> [netCnxs |-> <<8, 10, 16>>, dualCnxs |-> <<3, 9, 8>>, auxCnxs |-> <<>>] @@
    10 :> [netCnxs |-> <<3, 11, 9>>, dualCnxs |-> <<5, 9, 3>>, auxCnxs |-> <<>>] @@
    11 :> [netCnxs |-> <<10, 12, 18>>, dualCnxs |-> <<5, 10, 9>>, auxCnxs |-> <<>>] @@
    12 :> [netCnxs |-> <<5, 13, 11>>, dualCnxs |-> <<7, 10, 5>>, auxCnxs |-> <<>>] @@
    13 :> [netCnxs |-> <<12, 14, 20>>, dualCnxs |-> <<7, 11, 10>>, auxCnxs |-> <<>>] @@
    14 :> [netCnxs |-> <<7, 15, 13>>, dualCnxs |-> <<8, 11, 7>>, auxCnxs |-> <<>>] @@
    15 :> [netCnxs |-> <<14, 16, 22>>, dualCnxs |-> <<8, 2, 11>>, auxCnxs |-> <<>>] @@
    16 :> [netCnxs |-> <<9, 17, 15>>, dualCnxs |-> <<9, 2, 8>>, auxCnxs |-> <<>>] @@
    17 :> [netCnxs |-> <<16, 18, 0>>, dualCnxs |-> <<9, 0, 2>>, auxCnxs |-> <<>>] @@
    18 :> [netCnxs |-> <<11, 19, 17>>, dualCnxs |-> <<10, 0, 9>>, auxCnxs |-> <<>>] @@
    19 :> [netCnxs |-> <<18, 20, 2>>, dualCnxs |-> <<10, 4, 0>>, auxCnxs |-> <<>>] @@
    20 :> [netCnxs |-> <<13, 21, 19>>, dualCnxs |-> <<11, 4, 10>>, auxCnxs |-> <<>>] @@
    21 :> [netCnxs |-> <<20, 22, 4>>, dualCnxs |-> <<11, 6, 4>>, auxCnxs |-> <<>>] @@
    22 :> [netCnxs |-> <<15, 23, 21>>, dualCnxs |-> <<2, 6, 11>>, auxCnxs |-> <<>>] @@
    23 :> [netCnxs |-> <<22, 0, 6>>, dualCnxs |-> <<2, 1, 6>>, auxCnxs |-> <<>>]

Hex12B ==
    0 :> [netCnxs |-> <<2, 9, 10, 4, 3, 1>>, dualCnxs |-> <<0, 17, 18, 19, 2, 1>>, auxCnxs |-> <<>>] @@
    1 :> [netCnxs |-> <<0, 3, 8, 7, 6, 2>>, dualCnxs |-> <<0, 1, 8, 7, 6, 23>>, auxCnxs |-> <<>>] @@
    2 :> [netCnxs |-> <<1, 6, 11, 8, 9, 0>>, dualCnxs |-> <<0, 23, 22, 15, 16, 17>>, auxCnxs |-> <<>>] @@
    3 :> [netCnxs |-> <<0, 4, 5, 9, 8, 1>>, dualCnxs |-> <<1, 2, 3, 10, 9, 8>>, auxCnxs |-> <<>>] @@
    4 :> [netCnxs |-> <<0, 10, 11, 6, 5, 3>>, dualCnxs |-> <<2, 19, 20, 21, 4, 3>>, auxCnxs |-> <<>>] @@
    5 :> [netCnxs |-> <<4, 6, 7, 10, 9, 3>>, dualCnxs |-> <<3, 4, 5, 12, 11, 10>>, auxCnxs |-> <<>>] @@
    6 :> [netCnxs |-> <<4, 11, 2, 1, 7, 5>>, dualCnxs |-> <<4, 21, 22, 23, 6, 5>>, auxCnxs |-> <<>>] @@
    7 :> [netCnxs |-> <<6, 1, 8, 11, 10, 5>>, dualCnxs |-> <<5, 6, 7, 14, 13, 12>>, auxCnxs |-> <<>>] @@
    8 :> [netCnxs |-> <<1, 3, 9, 2, 11, 7>>, dualCnxs |-> <<7, 8, 9, 16, 15, 14>>, auxCnxs |-> <<>>] @@
    9 :> [netCnxs |-> <<3, 5, 10, 0, 2, 8>>, dualCnxs |-> <<9, 10, 11, 18, 17, 16>>, auxCnxs |-> <<>>] @@
    10 :> [netCnxs |-> <<5, 7, 11, 4, 0, 9>>, dualCnxs |-> <<11, 12, 13, 20, 19, 18>>, auxCnxs |-> <<>>] @@
    11 :> [netCnxs |-> <<7, 8, 2, 6, 4, 10>>, dualCnxs |-> <<13, 14, 15, 22, 21, 20>>, auxCnxs |-> <<>>]

\* Periodic hexagonal lattice of 5 rings and 10 atoms: every ring meets two
\* of its neighbours twice.
Hex5A ==
    0 :> [netCnxs |-> <<5, 1, 9>>, dualCnxs |-> <<0, 1, 2>>, auxCnxs |-> <<>>] @@
    1 :> [netCnxs |-> <<0, 2, 6>>, dualCnxs |-> <<0, 3, 1>>, auxCnxs |-> <<>>] @@
    2 :> [netCnxs |-> <<7, 3, 1>>, dualCnxs |-> <<4, 3, 0>>, auxCnxs |-> <<>>] @@
    3 :> [netCnxs |-> <<2, 4, 8>>, dualCnxs |-> <<4, 2, 3>>, auxCnxs |-> <<>>] @@
    4 :> [netCnxs |-> <<9, 5, 3>>, dualCnxs |-> <<1, 2, 4>>, auxCnxs |-> <<>>] @@
    5 :> [netCnxs |-> <<4, 6, 0>>, dualCnxs |-> <<1, 0, 2>>, auxCnxs |-> <<>>] @@
    6 :> [netCnxs |-> <<1, 7, 5>>, dualCnxs |-> <<3, 0, 1>>, auxCnxs |-> <<>>] @@
    7 :> [netCnxs |-> <<6, 8, 2>>, dualCnxs |-> <<3, 4, 0>>, auxCnxs |-> <<>>] @@
    8 :> [netCnxs |-> <<3, 9, 7>>, dualCnxs |-> <<2, 4, 3>>, auxCnxs |-> <<>>] @@
    9 :> [netCnxs |-> <<8, 0, 4>>, dualCnxs |-> <<2, 1, 4>>, auxCnxs |-> <<>>]

Hex5B ==
    0 :> [netCnxs |-> <<2, 1, 3, 4, 3, 1>>, dualCnxs |-> <<0, 5, 6, 7, 2, 1>>, auxCnxs |-> <<>>] @@
    1 :> [netCnxs |-> <<0, 3, 0, 2, 4, 2>>, dualCnxs |-> <<0, 1, 6, 5, 4, 9>>, auxCnxs |-> <<>>] @@
    2 :> [netCnxs |-> <<1, 4, 3, 4, 1, 0>>, dualCnxs |-> <<0, 9, 8, 3, 4, 5>>, auxCnxs |-> <<>>] @@
    3 :> [netCnxs |-> <<0, 4, 2, 4, 0, 1>>, dualCnxs |-> <<1, 2, 3, 8, 7, 6>>, auxCnxs |-> <<>>] @@
    4 :> [netCnxs |-> <<0, 3, 2, 1, 2, 3>>, dualCnxs |-> <<2, 7, 8, 9, 4, 3>>, auxCnxs |-> <<>>]

\* Periodic square lattice, 4 x 4, with the bond 0-4 absent: atoms 0 and 4 are
\* 3-coordinate, the others 4-coordinate; one ring has six sides; auxCnxs are
\* the rings diagonally across each 4-coordinate atom.
Sq44A ==
    0 :> [netCnxs |-> <<1, 3, 12>>, dualCnxs |-> <<0, 1, 2>>, auxCnxs |-> <<>>] @@
    1 :> [netCnxs |-> <<2, 5, 0, 13>>, dualCnxs |-> <<3, 0, 2, 4>>, auxCnxs |-> <<>>] @@
    2 :> [netCnxs |-> <<3, 6, 1, 14>>, dualCnxs |-> <<5, 3, 4, 6>>, auxCnxs |-> <<>>] @@
    3 :> [netCnxs |-> <<0, 7, 2, 15>>, dualCnxs |-> <<0, 5, 6, 1>>, auxCnxs |-> <<>>] @@
    4 :> [netCnxs |-> <<5, 8, 7>>, dualCnxs |-> <<7, 8, 0>>, auxCnxs |-> <<>>] @@
    5 :> [netCnxs |-> <<6, 9, 4, 1>>, dualCnxs |-> <<9, 7, 0, 3>>, auxCnxs |-> <<>>] @@
    6 :> [netCnxs |-> <<7, 10, 5, 2>>, dualCnxs |-> <<10, 9, 3, 5>>, auxCnxs |-> <<>>] @@
    7 :> [netCnxs |-> <<4, 11, 6, 3>>, dualCnxs |-> <<8, 10, 5, 0>>, auxCnxs |-> <<>>] @@
    8 :> [netCnxs |-> <<9, 12, 11, 4>>, dualCnxs |-> <<11, 12, 8, 7>>, auxCnxs |-> <<>>] @@
    9 :> [netCnxs |-> <<10, 13, 8, 5>>, dualCnxs |-> <<13, 11, 7, 9>>, auxCnxs |-> <<>>] @@
    10 :> [netCnxs |-> <<11, 14, 9, 6>>, dualCnxs |-> <<14, 13, 9, 10>>, auxCnxs |-> <<>>] @@
    11 :> [netCnxs |-> <<8, 15, 10, 7>>, dualCnxs |-> <<12, 14, 10, 8>>, auxCnxs |-> <<>>] @@
    12 :> [netCnxs |-> <<13, 0, 15, 8>>, dualCnxs |-> <<2, 1, 12, 11>>, auxCnxs |-> <<>>] @@
    13 :> [netCnxs |-> <<14, 1, 12, 9>>, dualCnxs |-> <<4, 2, 11, 13>>, auxCnxs |-> <<>>] @@
    14 :> [netCnxs |-> <<15, 2, 13, 10>>, dualCnxs |-> <<6, 4, 13, 14>>, auxCnxs |-> <<>>] @@
    15 :> [netCnxs |-> <<12, 3, 14, 11>>, dualCnxs |-> <<1, 6, 14, 12>>, auxCnxs |-> <<>>]

Sq44B ==
    0 :> [netCnxs |-> <<2, 3, 7, 8, 5, 1>>, dualCnxs |-> <<0, 1, 5, 4, 7, 3>>, auxCnxs |-> <<4, 6, 9, 10>>] @@
    1 :> [netCnxs |-> <<0, 6, 12, 2>>, dualCnxs |-> <<0, 3, 15, 12>>, auxCnxs |-> <<5, 11, 14>>] @@
    2 :> [netCnxs |-> <<1, 11, 4, 0>>, dualCnxs |-> <<0, 12, 13, 1>>, auxCnxs |-> <<3, 12, 13>>] @@
    3 :> [netCnxs |-> <<4, 5, 9, 0>>, dualCnxs |-> <<1, 2, 6, 5>>, auxCnxs |-> <<2, 6, 7, 10>>] @@
    4 :> [netCnxs |-> <<2, 13, 6, 3>>, dualCnxs |-> <<1, 13, 14, 2>>, auxCnxs |-> <<0, 5, 11, 14>>] @@
    5 :> [netCnxs |-> <<6, 0, 10, 3>>, dualCnxs |-> <<2, 3, 7, 6>>, auxCnxs |-> <<4, 1, 9, 8>>] @@
    6 :> [netCnxs |-> <<4, 14, 1, 5>>, dualCnxs |-> <<2, 14, 15, 3>>, auxCnxs |-> <<3, 0, 13, 12>>] @@
    7 :> [netCnxs |-> <<0, 9, 11, 8>>, dualCnxs |-> <<4, 5, 9, 8>>, auxCnxs |-> <<3, 12, 13>>] @@
    8 :> [netCnxs |-> <<7, 12, 10, 0>>, dualCnxs |-> <<4, 8, 11, 7>>, auxCnxs |-> <<5, 11, 14>>] @@
    9 :> [netCnxs |-> <<3, 10, 13, 7>>, dualCnxs |-> <<5, 6, 10, 9>>, auxCnxs |-> <<0, 5, 11, 14>>] @@
    10 :> [netCnxs |-> <<5, 8, 14, 9>>, dualCnxs |-> <<6, 7, 11, 10>>, auxCnxs |-> <<3, 0, 13, 12>>] @@
    11 :> [netCnxs |-> <<7, 13, 2, 12>>, dualCnxs |-> <<8, 9, 13, 12>>, auxCnxs |-> <<8, 9, 1, 4>>] @@
    12 :> [netCnxs |-> <<11, 1, 14, 8>>, dualCnxs |-> <<8, 12, 15, 11>>, auxCnxs |-> <<7, 10, 2, 6>>] @@
    13 :> [netCnxs |-> <<9, 14, 4, 11>>, dualCnxs |-> <<9, 10, 14, 13>>, auxCnxs |-> <<7, 10, 2, 6>>] @@
    14 :> [netCnxs |-> <<10, 12, 6, 13>>, dualCnxs |-> <<10, 11, 15, 14>>, auxCnxs |-> <<9, 8, 4, 1>>]

\* Periodic square lattice of 7 rings and 7 atoms, atom x + 5y at (x, y):
\* every atom is 4-coordinate and three corners of every ring are bonded to
\* the fourth.
Sq7A ==
    0 :> [netCnxs |-> <<1, 5, 6, 2>>, dualCnxs |-> <<0, 6, 1, 2>>, auxCnxs |-> <<>>] @@
    1 :> [netCnxs |-> <<2, 6, 0, 3>>, dualCnxs |-> <<1, 0, 2, 3>>, auxCnxs |-> <<>>] @@
    2 :> [netCnxs |-> <<3, 0, 1, 4>>, dualCnxs |-> <<2, 1, 3, 4>>, auxCnxs |-> <<>>] @@
    3 :> [netCnxs |-> <<4, 1, 2, 5>>, dualCnxs |-> <<3, 2, 4, 5>>, auxCnxs |-> <<>>] @@
    4 :> [netCnxs |-> <<5, 2, 3, 6>>, dualCnxs |-> <<4, 3, 5, 6>>, auxCnxs |-> <<>>] @@
    5 :> [netCnxs |-> <<6, 3, 4, 0>>, dualCnxs |-> <<5, 4, 6, 0>>, auxCnxs |-> <<>>] @@
    6 :> [netCnxs |-> <<0, 4, 5, 1>>, dualCnxs |-> <<6, 5, 0, 1>>, auxCnxs |-> <<>>]

Sq7B ==
    0 :> [netCnxs |-> <<2, 1, 5, 6>>, dualCnxs |-> <<0, 1, 6, 5>>, auxCnxs |-> <<6, 4, 1, 3>>] @@
    1 :> [netCnxs |-> <<3, 2, 6, 0>>, dualCnxs |-> <<1, 2, 0, 6>>, auxCnxs |-> <<0, 5, 2, 4>>] @@
    2 :> [netCnxs |-> <<4, 3, 0, 1>>, dualCnxs |-> <<2, 3, 1, 0>>, auxCnxs |-> <<1, 6, 3, 5>>] @@
    3 :> [netCnxs |-> <<5, 4, 1, 2>>, dualCnxs |-> <<3, 4, 2, 1>>, auxCnxs |-> <<2, 0, 4, 6>>] @@
    4 :> [netCnxs |-> <<6, 5, 2, 3>>, dualCnxs |-> <<4, 5, 3, 2>>, auxCnxs |-> <<3, 1, 5, 0>>] @@
    5 :> [netCnxs |-> <<0, 6, 3, 4>>, dualCnxs |-> <<5, 6, 4, 3>>, auxCnxs |-> <<4, 2, 6, 1>>] @@
    6 :> [netCnxs |-> <<1, 0, 4, 5>>, dualCnxs |-> <<6, 0, 5, 4>>, auxCnxs |-> <<5, 3, 0, 2>>]
(* --------------------------- vector tools ----------------------------- *)
vectorContains(vector, value) == \E i \in DOMAIN vector : vector[i] = value

\* The common values once each, in the order of vector1.
intersectVectorsOnce(vector1, vector2) ==
  LET common == SelectSeq(vector1, LAMBDA value : vectorContains(vector2, value))
  IN SelectSeq([i \in DOMAIN common |->
                  IF \E k \in 1 .. i - 1 : common[k] = common[i]
                    THEN 0 - 1 ELSE common[i]],
               LAMBDA value : value >= 0)

\* The elements of vector1, in their order, that occur in vector2.
intersectVectors(vector1, vector2) ==
  SelectSeq(vector1, LAMBDA value : vectorContains(vector2, value))

\* Every occurrence of a value of the set is removed.
deleteByValues(vector, values) ==
  SelectSeq(vector, LAMBDA value : value \notin values)

replaceValue(vector, oldValue, newValue) ==
  [i \in DOMAIN vector |-> IF vector[i] = oldValue THEN newValue ELSE vector[i]]

\* The distinct values in the order of their last occurrence.
getUniqueValuesLast(vector) ==
  SelectSeq([i \in DOMAIN vector |->
               IF \E k \in i + 1 .. Len(vector) : vector[k] = vector[i]
                 THEN 0 - 1 ELSE vector[i]],
            LAMBDA value : value >= 0)

RECURSIVE getUniqueValues(_)
getUniqueValues(vector) ==
  IF vector = <<>> THEN <<>>
  ELSE LET front == getUniqueValues(SubSeq(vector, 1, Len(vector) - 1))
           value == vector[Len(vector)]
       IN IF vectorContains(front, value) THEN front ELSE Append(front, value)

(* ------------- VecR operations used by the move code ------------------ *)
\* A VecR operation yields [ok, v]: ok is FALSE where the operation raises
\* because the value or the pair of neighbours it is keyed on is absent.
vContains(v, value) == vectorContains(v, value)

vCommonValues(v1, v2) == intersectVectors(v1, v2)

vUnique(v) == getUniqueValues(v)

Next1(v, i) == (i % Len(v)) + 1

Prev1(v, i) == ((i + Len(v) - 2) % Len(v)) + 1

FirstIndex(S) == CHOOSE i \in S : \A j \in S : i <= j

vAdjCount(v, b0, b1) ==
  Cardinality({i \in DOMAIN v :
                 \/ v[i] = b0 /\ v[Next1(v, i)] = b1
                 \/ v[i] = b1 /\ v[Next1(v, i)] = b0})

addValue(v, value) == Append(v, value)

delValue(v, value) ==
  LET at == {i \in DOMAIN v : v[i] = value}
  IN IF at = {} THEN v
     ELSE LET i == FirstIndex(at)
          IN SubSeq(v, 1, i - 1) \o SubSeq(v, i + 1, Len(v))

swapValue(v, vDel, vAdd) ==
  IF vContains(v, vDel)
    THEN [ok |-> TRUE, v |-> replaceValue(v, vDel, vAdd)]
    ELSE [ok |-> FALSE, v |-> v]

swapValueBetween(v, vDel, vAdd, b0, b1) ==
  LET at == {i \in DOMAIN v :
               /\ v[i] = vDel
               /\ \/ v[Prev1(v, i)] = b0 /\ v[Next1(v, i)] = b1
                  \/ v[Prev1(v, i)] = b1 /\ v[Next1(v, i)] = b0}
  IN IF at = {} THEN [ok |-> FALSE, v |-> v]
     ELSE [ok |-> TRUE, v |-> [v EXCEPT ![FirstIndex(at)] = vAdd]]

insertValue(v, value, b0, b1) ==
  LET at == {i \in DOMAIN v :
               \/ v[i] = b0 /\ v[Next1(v, i)] = b1
               \/ v[i] = b1 /\ v[Next1(v, i)] = b0}
  IN IF at = {} THEN [ok |-> FALSE, v |-> v]
     ELSE LET i == FirstIndex(at)
          IN [ok |-> TRUE,
              v |-> IF i = Len(v) THEN <<value>> \o v
                    ELSE SubSeq(v, 1, i) \o <<value>> \o SubSeq(v, i + 1, Len(v))]

Done(v) == [ok |-> TRUE, v |-> v]

(* ----------------------- distribution tables -------------------------- *)
Degrees == 0 .. MaxDeg

Deg(N, id) == Len(N[id].netCnxs)

\* checkDescriptorConsistency's recount of a node distribution.
checkNode(N) == [k \in Degrees |-> Cardinality({id \in DOMAIN N : Deg(N, id) = k})]

\* checkDescriptorConsistency's recount of an edge distribution: ends holds
\* one (node, entry) pair per entry of a netCnxs, and pair gives the two
\* degrees m and n that the loop reads for it.
checkEdgeCount(ends, pair) ==
  [m \in Degrees |-> [n \in Degrees |->
     Cardinality({p \in ends : pair[p] = <<m, n>>})]]

checkEdgeEnds(N, ends) ==
  checkEdgeCount(ends, [p \in ends |->
                          <<Deg(N, p[1]), Deg(N, N[p[1]].netCnxs[p[2]])>>])

checkEdge(N) ==
  checkEdgeEnds(N, UNION {{<<id, j>> : j \in DOMAIN N[id].netCnxs} : id \in DOMAIN N})


(* ------------------------- associated nodes --------------------------- *)
\* What an operation yields in place of a node id when it read a variable
\* that was never assigned, or an element of an empty vector.
Unassigned == 0 - 2

\* The "even rarer case" loop of findAssociatedNodeAB over idB's dualCnxs.
RECURSIVE rarerAB(_, _, _, _, _)
rarerAB(ring, common1, idA, idDel, i) ==
  IF i > Len(ring) THEN 0 - 1
  ELSE IF ring[i] # idDel THEN rarerAB(ring, common1, idA, idDel, i + 1)
  ELSE IF ring[Next1(ring, i)] = idA
         THEN LET j == Next1(ring, Next1(ring, i))
              IN IF vContains(common1, ring[j]) THEN ring[j]
                 ELSE rarerAB(ring, common1, idA, idDel, i + 1)
  ELSE IF ring[Prev1(ring, i)] = idA
         THEN LET j == Prev1(ring, Prev1(ring, i))
              IN IF vContains(common1, ring[j]) THEN ring[j]
                 ELSE rarerAB(ring, common1, idA, idDel, i + 1)
  ELSE Unassigned

\* The node of A bonded to idA on ring idB that is not idDel; -1 is the
\* case in which the program prints the error and calls exit(9).
findAssociatedNodeAB(A, B, idA, idB, idDel) ==
  LET common == delValue(vCommonValues(A[idA].netCnxs, B[idB].dualCnxs), idDel)
      cnxs == A[idA].netCnxs
      at == {i \in DOMAIN cnxs : cnxs[i] = idDel}
      common1 == IF at = {} THEN <<>>
                 ELSE LET i == FirstIndex(at)
                          l == cnxs[Next1(cnxs, i)]
                          r == cnxs[Prev1(cnxs, i)]
                      IN SelectSeq(common, LAMBDA id : id = l \/ id = r)
  IN IF Len(common) = 1 THEN common[1]
     ELSE IF Len(common1) = 1 THEN common1[1]
     ELSE rarerAB(B[idB].dualCnxs, common1, idA, idDel, 1)

AdjacentOnRing(ring, idA, idB) ==
  \E j \in DOMAIN ring :
     \/ ring[j] = idA /\ ring[Next1(ring, j)] = idB
     \/ ring[j] = idB /\ ring[Next1(ring, j)] = idA

\* The ring shared by atoms idA and idB that is not idDel; -1 when none.
findAssociatedNodeAA(A, B, idA, idB, idDel) ==
  LET common == delValue(vCommonValues(A[idA].dualCnxs, A[idB].dualCnxs), idDel)
      common1 == SelectSeq(common, LAMBDA id : vContains(B[id].netCnxs, idDel))
      keep == {i \in DOMAIN common1 :
                 AdjacentOnRing(B[common[i]].dualCnxs, idA, idB)}
  IN IF Len(common) = 1 THEN common[1]
     ELSE IF Len(common1) = 1 THEN common1[1]
     ELSE IF Cardinality(keep) = 1 THEN common1[CHOOSE i \in keep : TRUE]
     ELSE 0 - 1

(* ----------------------------- pickers -------------------------------- *)
Picked(res, cnxType, a, b, u, v) ==
  [res |-> res, cnxType |-> cnxType, a |-> a, b |-> b, u |-> u, v |-> v]

\* An assignValues that keeps the order of the draw for a 4-3 edge.
assignValuesAsDrawn(n0, n1, cnd0, cnd1) ==
  IF cnd0 = 3 /\ cnd1 = 3 THEN [cnxType |-> 33, a |-> n0, b |-> n1]
  ELSE IF cnd0 = 4 /\ cnd1 = 4 THEN [cnxType |-> 44, a |-> n0, b |-> n1]
  ELSE IF (cnd0 = 3 /\ cnd1 = 4) \/ (cnd0 = 4 /\ cnd1 = 3)
    THEN [cnxType |-> 43, a |-> n0, b |-> n1]
  ELSE [cnxType |-> 0, a |-> n0, b |-> n1]

\* cnxType, a and b from the coordinations of the two drawn nodes; 0 is the
\* case that throws.
assignValues(n0, n1, cnd0, cnd1) ==
  IF cnd0 = 3 /\ cnd1 = 3 THEN [cnxType |-> 33, a |-> n0, b |-> n1]
  ELSE IF cnd0 = 4 /\ cnd1 = 4 THEN [cnxType |-> 44, a |-> n0, b |-> n1]
  ELSE IF (cnd0 = 3 /\ cnd1 = 4) \/ (cnd0 = 4 /\ cnd1 = 3)
    THEN [cnxType |-> 43, a |-> IF cnd0 = 4 THEN n0 ELSE n1,
                          b |-> IF cnd0 = 4 THEN n1 ELSE n0]
  ELSE [cnxType |-> 0, a |-> n0, b |-> n1]

includesFixedRingNode(B, fixedRings, a, b) ==
  \E i \in DOMAIN fixedRings :
     \E j \in DOMAIN B[fixedRings[i]].dualCnxs :
        B[fixedRings[i]].dualCnxs[j] \in {a, b}

\* The picker that hands out the first common ring as u and as v.
pickRandomCnx34SameRing(A, B, fixedRings, node0, cnx, dir) ==
  LET node1 == A[node0].netCnxs[cnx]
      t == assignValues(node0, node1, Deg(A, node0), Deg(A, node1))
      commonNodes == vCommonValues(A[t.a].dualCnxs, A[t.b].dualCnxs)
  IN IF t.cnxType = 0 THEN Picked("throw", 0, t.a, t.b, Unassigned, Unassigned)
     ELSE IF Len(commonNodes) # 2
       THEN Picked("debugThrow", t.cnxType, t.a, t.b, Unassigned, Unassigned)
     ELSE IF includesFixedRingNode(B, fixedRings, t.a, t.b)
       THEN Picked("redraw", t.cnxType, t.a, t.b, commonNodes[1], commonNodes[1])
     ELSE Picked("ok", t.cnxType, t.a, t.b, commonNodes[1], commonNodes[1])

\* One pass of pickRandomCnx34's loop for the draw (node0, cnx, dir):
\* "redraw" is the pass that found a fixed ring and loops again, "debugThrow"
\* the throw that follows wrapCoordinates, syncCoordinates and write("debug").
pickRandomCnx34(A, B, fixedRings, node0, cnx, dir) ==
  LET node1 == A[node0].netCnxs[cnx]
      t == assignValues(node0, node1, Deg(A, node0), Deg(A, node1))
      commonNodes == vCommonValues(A[t.a].dualCnxs, A[t.b].dualCnxs)
  IN IF t.cnxType = 0 THEN Picked("throw", 0, t.a, t.b, Unassigned, Unassigned)
     ELSE IF Len(commonNodes) # 2
       THEN Picked("debugThrow", t.cnxType, t.a, t.b, Unassigned, Unassigned)
     ELSE IF includesFixedRingNode(B, fixedRings, t.a, t.b)
       THEN Picked("redraw", t.cnxType, t.a, t.b,
                   commonNodes[1 + dir], commonNodes[2 - dir])
     ELSE Picked("ok", t.cnxType, t.a, t.b,
                 commonNodes[1 + dir], commonNodes[2 - dir])

\* One pass of pickDiscreteCnx34's loop for the draw (n0, cnx, dir): n0 comes
\* from the discrete distribution over weights, which are positive for
\* every node, so every node can be drawn.
pickDiscreteCnx34(A, B, fixedRings, n0, cnx, dir) ==
  LET n1 == A[n0].netCnxs[cnx]
      cnd0 == Deg(A, n0)
      cnd1 == Deg(A, n1)
      cnxType == IF cnd0 = 3 /\ cnd1 = 3 THEN 33
                 ELSE IF cnd0 = 4 /\ cnd1 = 4 THEN 44
                 ELSE IF cnd0 = 3 /\ cnd1 = 4 THEN 43
                 ELSE IF cnd0 = 4 /\ cnd1 = 3 THEN 43
                 ELSE 0
      a == IF cnd0 = 3 /\ cnd1 = 4 THEN n1 ELSE n0
      b == IF cnd0 = 3 /\ cnd1 = 4 THEN n0 ELSE n1
      common == vCommonValues(A[a].dualCnxs, A[b].dualCnxs)
  IN IF cnxType = 0 THEN Picked("throw", 0, n0, n1, Unassigned, Unassigned)
     ELSE IF Len(common) # 2
       THEN Picked("debugThrow", cnxType, a, b, Unassigned, Unassigned)
     ELSE IF includesFixedRingNode(B, fixedRings, a, b)
       THEN Picked("redraw", cnxType, a, b, common[1 + dir], common[2 - dir])
     ELSE Picked("ok", cnxType, a, b, common[1 + dir], common[2 - dir])

\* pickSpiralCnx34 from the caller's node a: rFixedLocal has three entries,
\* filled from rFixed, which makerFixed sets to 1000/r > 0 for every node.
pickSpiralCnx34(A, a, cnx, dir) ==
  LET b == A[a].netCnxs[cnx]
      common == vCommonValues(A[a].dualCnxs, A[b].dualCnxs)
  IN IF Deg(A, a) # 3 THEN Picked("undefined", 33, a, Unassigned, Unassigned, Unassigned)
     ELSE IF Len(common) # 2 THEN Picked("debugThrow", 33, a, b, Unassigned, Unassigned)
     ELSE Picked("ok", 33, a, b, common[1 + dir], common[2 - dir])

\* pickRandomCnx: any coordination; with three common rings the two on
\* which a and b are adjacent are taken.
pickRandomCnx(A, B, n0, cnx, dir) ==
  LET n1 == A[n0].netCnxs[cnx]
      cnxType == 10 * Deg(A, n0) + Deg(A, n1)
      common == vCommonValues(A[n0].dualCnxs, A[n1].dualCnxs)
      uv == SelectSeq(common, LAMBDA id : AdjacentOnRing(B[id].dualCnxs, n0, n1))
  IN IF Len(common) = 2
       THEN Picked("ok", cnxType, n0, n1, common[1 + dir], common[2 - dir])
     ELSE IF Len(common) = 3
       THEN IF Len(uv) = 2
              THEN Picked("ok", cnxType, n0, n1, uv[1 + dir], uv[2 - dir])
              ELSE Picked("debugThrow", cnxType, n0, n1, Unassigned, Unassigned)
     ELSE Picked("undefined", cnxType, n0, n1, Unassigned, Unassigned)

(* ---------------------------- generators ------------------------------ *)
Generated(res, idsA, idsB) == [res |-> res, idsA |-> idsA, idsB |-> idsB]

Rejected == Generated("reject", <<>>, <<>>)

\* The "fewer than three neighbours" checks shared by the 33 switch and the mix.
ringNeighbourError(B, u, v, x) ==
  LET vCnxs == vUnique(B[v].netCnxs)
      uCnxs == delValue(vUnique(B[u].netCnxs), v)
  IN \/ Len(vCnxs) <= 3
     \/ Len(uCnxs) <= 2 /\ vContains(uCnxs, x)

\* The limit check with the lower limit left out.
ringBoundErrorUpperOnly(B, c0, u, v, w, x) ==
  \/ Deg(B, w) = c0.maxBCnxs
  \/ Deg(B, x) = c0.maxBCnxs

\* The limit check with the upper limit left out.
ringBoundErrorLowerOnly(B, c0, u, v, w, x) ==
  \/ Deg(B, u) = c0.minBCnxs
  \/ Deg(B, v) = c0.minBCnxs

\* A switch takes an edge from rings u and v and gives one to rings w and x:
\* the move is refused when u or v is at the lower limit or w or x at the upper.
ringBoundError(B, c0, u, v, w, x) ==
  \/ Deg(B, u) = c0.minBCnxs
  \/ Deg(B, v) = c0.minBCnxs
  \/ Deg(B, w) = c0.maxBCnxs
  \/ Deg(B, x) = c0.maxBCnxs

generateSwitchIds33(A, B, c0, a, b, u, v) ==
  LET c == findAssociatedNodeAB(A, B, a, u, b)
      d == findAssociatedNodeAB(A, B, b, u, a)
      e == findAssociatedNodeAB(A, B, a, v, b)
      f == findAssociatedNodeAB(A, B, b, v, a)
  IN IF Unassigned \in {c, d, e, f} THEN Generated("undefined", <<>>, <<>>)
     ELSE IF (0 - 1) \in {c, d, e, f} THEN Generated("exit", <<>>, <<>>)
     ELSE LET w == findAssociatedNodeAA(A, B, a, c, u)
              x == findAssociatedNodeAA(A, B, b, d, u)
          IN IF c = d \/ e = f \/ ringNeighbourError(B, u, v, x) THEN Rejected
             ELSE IF w < 0 \/ x < 0 THEN Generated("undefined", <<>>, <<>>)
             ELSE IF ringBoundError(B, c0, u, v, w, x) THEN Rejected
             ELSE Generated("ok", <<a, b, c, d, e, f>>, <<u, v, w, x>>)

generateSwitchIds44(A, B, c0, a, b, u, v) ==
  LET cs == delValue(vCommonValues(A[a].netCnxs, B[u].dualCnxs), b)
      ds == delValue(vCommonValues(A[b].netCnxs, B[u].dualCnxs), a)
      es == delValue(vCommonValues(A[a].netCnxs, B[v].dualCnxs), b)
      fs == delValue(vCommonValues(A[b].netCnxs, B[v].dualCnxs), a)
  IN IF <<>> \in {cs, ds, es, fs} THEN Generated("undefined", <<>>, <<>>)
     ELSE
     LET c == cs[1]
         d == ds[1]
         e == es[1]
         f == fs[1]
         ws == delValue(vCommonValues(A[a].dualCnxs, A[e].dualCnxs), v)
         xs == delValue(vCommonValues(A[b].dualCnxs, A[d].dualCnxs), u)
         ys == delValue(vCommonValues(A[a].dualCnxs, A[c].dualCnxs), u)
         zs == delValue(vCommonValues(A[b].dualCnxs, A[f].dualCnxs), v)
         gs == delValue(delValue(delValue(A[a].netCnxs, b), c), e)
         hs == delValue(delValue(delValue(A[b].netCnxs, a), d), f)
     IN IF <<>> \in {ws, xs, ys, zs, gs, hs} THEN Generated("undefined", <<>>, <<>>)
        ELSE
        LET w == ws[1]
            x == xs[1]
            y == ys[1]
            z == zs[1]
        IN IF \/ \E s \in {cs, ds, es, fs, ws, xs, ys, zs, gs, hs} : Len(s) # 1
              \/ c = d \/ e = f
              \/ vContains(B[w].netCnxs, x)
              \/ vContains(B[y].netCnxs, x)
              \/ vContains(B[y].auxCnxs, x)
              \/ vContains(B[z].netCnxs, w)
              \/ vContains(B[z].auxCnxs, w) THEN Rejected
           ELSE IF ringBoundError(B, c0, u, v, w, x) THEN Rejected
           ELSE Generated("ok", <<a, b, c, d, e, f, gs[1], hs[1]>>,
                          <<u, v, w, x, y, z>>)

generateSwitchIds43(A, B, c0, a, b, u, v) ==
  LET cs == delValue(vCommonValues(A[a].netCnxs, B[u].dualCnxs), b)
      ds == delValue(vCommonValues(A[b].netCnxs, B[u].dualCnxs), a)
      es == delValue(vCommonValues(A[a].netCnxs, B[v].dualCnxs), b)
      fs == delValue(vCommonValues(A[b].netCnxs, B[v].dualCnxs), a)
  IN IF <<>> \in {cs, ds, es, fs} THEN Generated("undefined", <<>>, <<>>)
     ELSE
     LET c == cs[1]
         d == ds[1]
         e == es[1]
         f == fs[1]
         ws == delValue(vCommonValues(A[a].dualCnxs, A[e].dualCnxs), v)
         xs == delValue(vCommonValues(A[b].dualCnxs, A[d].dualCnxs), u)
         xs1 == delValue(vCommonValues(A[b].dualCnxs, A[f].dualCnxs), v)
         ys == delValue(vCommonValues(A[a].dualCnxs, A[c].dualCnxs), u)
         gs == delValue(delValue(delValue(A[a].netCnxs, b), c), e)
     IN IF <<>> \in {ws, xs, ys, gs} THEN Generated("undefined", <<>>, <<>>)
        ELSE
        LET w == ws[1]
            x == xs[1]
            y == ys[1]
        IN IF \/ \E s \in {cs, ds, es, fs, ws, xs, xs1, ys, gs} : Len(s) # 1
              \/ xs[1] # xs1[1]
              \/ c = d \/ e = f
              \/ vContains(B[w].netCnxs, x)
              \/ vContains(B[y].netCnxs, x)
              \/ vContains(B[y].auxCnxs, x) THEN Rejected
           ELSE IF ringBoundError(B, c0, u, v, w, x) THEN Rejected
           ELSE Generated("ok", <<a, b, c, d, e, f, gs[1]>>, <<u, v, w, x, y>>)

\* The generator without the test of a = b and u = v.
generateSwitchIds34Unchecked(A, B, c0, cnxType, a, b, u, v) ==
  IF cnxType = 33 THEN generateSwitchIds33(A, B, c0, a, b, u, v)
  ELSE IF cnxType = 44 THEN generateSwitchIds44(A, B, c0, a, b, u, v)
  ELSE IF cnxType = 43 THEN generateSwitchIds43(A, B, c0, a, b, u, v)
  ELSE Generated("throw", <<>>, <<>>)

generateSwitchIds34(A, B, c0, cnxType, a, b, u, v) ==
  IF a = b \/ u = v THEN Rejected
  ELSE IF cnxType = 33 THEN generateSwitchIds33(A, B, c0, a, b, u, v)
  ELSE IF cnxType = 44 THEN generateSwitchIds44(A, B, c0, a, b, u, v)
  ELSE IF cnxType = 43 THEN generateSwitchIds43(A, B, c0, a, b, u, v)
  ELSE Generated("throw", <<>>, <<>>)

MIN_COORDINATION_NUMBER == 2

\* The loop of generateMixIds that looks for xx around a.
RECURSIVE findXX(_, _, _, _, _)
findXX(dual, u, v, i, xx) ==
  IF i > Len(dual) THEN xx
  ELSE IF dual[i] # u THEN findXX(dual, u, v, i + 1, xx)
  ELSE LET j == Next1(dual, i)
           k == Prev1(dual, i)
       IN IF dual[j] = v
            THEN findXX(dual, u, v, i + 1, dual[Next1(dual, Next1(dual, j))])
          ELSE IF dual[k] = v
            THEN findXX(dual, u, v, i + 1, dual[Prev1(dual, Prev1(dual, k))])
          ELSE findXX(dual, u, v, i + 1, xx)

generateMixIds(A, B, c0, cnxType, a, b, u, v) ==
  IF cnxType < MIN_COORDINATION_NUMBER THEN Rejected
  ELSE
  LET c == findAssociatedNodeAB(A, B, a, u, b)
      d == findAssociatedNodeAB(A, B, b, u, a)
      e == findAssociatedNodeAB(A, B, a, v, b)
      f == findAssociatedNodeAB(A, B, b, v, a)
  IN IF Unassigned \in {c, d, e, f} THEN Generated("undefined", <<>>, <<>>)
     ELSE IF (0 - 1) \in {c, d, e, f} THEN Generated("exit", <<>>, <<>>)
     ELSE LET w == findAssociatedNodeAA(A, B, a, c, u)
              x == findAssociatedNodeAA(A, B, a, e, v)
              y == findAssociatedNodeAA(A, B, b, d, u)
              z == findAssociatedNodeAA(A, B, b, f, v)
              xx == findXX(A[a].dualCnxs, u, v, 1, Unassigned)
          IN IF c = d \/ e = f \/ ringNeighbourError(B, u, v, x) THEN Rejected
             ELSE IF x < 0 THEN Generated("undefined", <<>>, <<>>)
             ELSE IF \/ Deg(B, v) = c0.minBCnxs
                     \/ Deg(B, x) = c0.maxBCnxs
                     \/ Deg(A, a) = c0.minACnxs
                     \/ Deg(A, b) = c0.maxACnxs THEN Rejected
             ELSE Generated("ok", <<a, b, c, d, e, f>>, <<u, v, w, x, y, z, xx>>)

(* ---------------------------- applicators ----------------------------- *)
\* The networks and distributions while a move is applied; err is set by the
\* first VecR operation that raises, and what follows it is not executed.
Nets(A, B, ndA, ndB, edA, edB) ==
  [A |-> A, B |-> B, ndA |-> ndA, ndB |-> ndB, edA |-> edA, edB |-> edB,
   err |-> FALSE]

\* S with the list fld of node id of network net replaced by the result r.
Put(S, net, id, fld, r) ==
  IF S.err THEN S
  ELSE IF ~r.ok THEN [S EXCEPT !.err = TRUE]
  ELSE [S EXCEPT ![net][id][fld] = r.v]

\* The VecR operations as statements on the list fld of node id of net.
doSwap(S, net, id, fld, vDel, vAdd) ==
  Put(S, net, id, fld, swapValue(S[net][id][fld], vDel, vAdd))

doSwapBetween(S, net, id, fld, vDel, vAdd, b0, b1) ==
  Put(S, net, id, fld, swapValueBetween(S[net][id][fld], vDel, vAdd, b0, b1))

doInsert(S, net, id, fld, value, b0, b1) ==
  Put(S, net, id, fld, insertValue(S[net][id][fld], value, b0, b1))

doDel(S, net, id, fld, value) ==
  Put(S, net, id, fld, Done(delValue(S[net][id][fld], value)))

doAdd(S, net, id, fld, value) ==
  Put(S, net, id, fld, Done(addValue(S[net][id][fld], value)))

\* The neighbour loop with no neighbour excluded.
RECURSIVE edgeLoopEveryNeighbour(_, _, _, _, _, _)
edgeLoopEveryNeighbour(ed, N, id0, excl, by, i) ==
  IF i > Deg(N, id0) THEN ed
  ELSE LET n == Deg(N, id0)
           nCnx == Deg(N, N[id0].netCnxs[i])
       IN edgeLoopEveryNeighbour([[ed EXCEPT ![n][nCnx] = @ + by]
                                      EXCEPT ![nCnx][n] = @ + by],
                                 N, id0, excl, by, i + 1)

\* One of the loops over the neighbours of node id: +by or -by on
\* edgeDistribution[n][nCnx], and on [nCnx][n] unless the neighbour is in excl.
RECURSIVE edgeLoop(_, _, _, _, _, _)
edgeLoop(ed, N, id0, excl, by, i) ==
  IF i > Deg(N, id0) THEN ed
  ELSE LET n == Deg(N, id0)
           id == N[id0].netCnxs[i]
           nCnx == Deg(N, id)
           e1 == [ed EXCEPT ![n][nCnx] = @ + by]
           e2 == IF id \in excl THEN e1 ELSE [e1 EXCEPT ![nCnx][n] = @ + by]
       IN edgeLoop(e2, N, id0, excl, by, i + 1)

RECURSIVE nodeCount(_, _, _, _, _)
nodeCount(nd, N, ids, by, i) ==
  IF i > Len(ids) THEN nd
  ELSE nodeCount([nd EXCEPT ![Deg(N, ids[i])] = @ + by], N, ids, by, i + 1)

\* The descriptor update of the three switch moves on network B: the node
\* counts of u, v, w, x and the four neighbour loops.
switchDistB(S, u, v, w, x, by) ==
  IF S.err THEN S
  ELSE LET e1 == edgeLoop(S.edB, S.B, u, {v, w, x}, by, 1)
           e2 == edgeLoop(e1, S.B, v, {u, w, x}, by, 1)
           e3 == edgeLoop(e2, S.B, w, {u, v, x}, by, 1)
           e4 == edgeLoop(e3, S.B, x, {u, v, w}, by, 1)
       IN [S EXCEPT !.ndB = nodeCount(S.ndB, S.B, <<u, v, w, x>>, by, 1),
                    !.edB = e4]

\* The insertion made only from the ring of smaller id.
insertRingOneWay(S, w, x, u, v, e0) ==
  IF S.err \/ w > x THEN S
  ELSE doInsert(S, "B", w, "netCnxs", x, u, v)

\* The insertion that enters x in w's netCnxs a second time.
insertRingTwice(S, w, x, u, v, e0) ==
  doAdd(doInsert(S, "B", w, "netCnxs", x, u, v), "B", w, "netCnxs", x)

\* w's netCnxs gains x between u and v; the branch for w meeting u and v more
\* than once goes through the ring ww of atom e0 that is neither v nor w.
insertRing(S, w, x, u, v, e0) ==
  IF S.err THEN S
  ELSE IF vAdjCount(S.B[w].netCnxs, u, v) > 1
    THEN LET eCnxs == delValue(delValue(S.A[e0].dualCnxs, v), w)
         IN IF eCnxs = <<>> THEN [S EXCEPT !.err = TRUE]
            ELSE LET s1 == doSwapBetween(S, "B", w, "netCnxs",
                                         v, 0 - 1, eCnxs[1], u)
                     s2 == doInsert(s1, "B", w, "netCnxs", x, 0 - 1, u)
                 IN doSwap(s2, "B", w, "netCnxs", 0 - 1, v)
    ELSE doInsert(S, "B", w, "netCnxs", x, u, v)

\* The B-A part with the two deletions crossed: u loses a and v loses b.
switchDualBCrossed(S, a, b, d, e, u, v, w, x) ==
  LET s1 == doDel(S, "B", u, "dualCnxs", a)
      s2 == doDel(s1, "B", v, "dualCnxs", b)
      s3 == doInsert(s2, "B", w, "dualCnxs", b, a, e)
  IN doInsert(s3, "B", x, "dualCnxs", a, b, d)

\* The B-A part without the insertion of a into x's dualCnxs.
switchDualBWithoutX(S, a, b, d, e, u, v, w, x) ==
  LET s1 == doDel(S, "B", u, "dualCnxs", b)
      s2 == doDel(s1, "B", v, "dualCnxs", a)
  IN doInsert(s2, "B", w, "dualCnxs", b, a, e)

\* The B-A part with the deletions alone: b and a are entered in no ring.
switchDualBDeletionsOnly(S, a, b, d, e, u, v, w, x) ==
  doDel(doDel(S, "B", u, "dualCnxs", b), "B", v, "dualCnxs", a)

\* The B-A part common to the three switch moves.
switchDualB(S, a, b, d, e, u, v, w, x) ==
  LET s1 == doDel(S, "B", u, "dualCnxs", b)
      s2 == doDel(s1, "B", v, "dualCnxs", a)
      s3 == doInsert(s2, "B", w, "dualCnxs", b, a, e)
  IN doInsert(s3, "B", x, "dualCnxs", a, b, d)

switchCnx33(S, idsA, idsB) ==
  LET a == idsA[1]
      b == idsA[2]
      d == idsA[4]
      e == idsA[5]
      f == idsA[6]
      u == idsB[1]
      v == idsB[2]
      w == idsB[3]
      x == idsB[4]
      s0 == switchDistB(S, u, v, w, x, 0 - 1)
      s1 == doSwap(s0, "A", a, "netCnxs", e, d)
      s2 == doSwap(s1, "A", b, "netCnxs", d, e)
      s3 == doSwap(s2, "A", d, "netCnxs", b, a)
      s4 == doSwap(s3, "A", e, "netCnxs", a, b)
      s5 == doSwap(s4, "A", a, "dualCnxs", v, x)
      s6 == doSwap(s5, "A", b, "dualCnxs", u, w)
      s7 == doSwapBetween(s6, "B", u, "netCnxs", v, 0 - 1, w, x)
      s8 == doSwapBetween(s7, "B", v, "netCnxs", u, 0 - 1, w, x)
      s9 == doDel(s8, "B", u, "netCnxs", 0 - 1)
      s10 == doDel(s9, "B", v, "netCnxs", 0 - 1)
      s11 == insertRing(s10, w, x, u, v, e)
      s12 == insertRing(s11, x, w, u, v, f)
      s13 == switchDualB(s12, a, b, d, e, u, v, w, x)
  IN switchDistB(s13, u, v, w, x, 1)

switchCnx44(S, idsA, idsB) ==
  LET a == idsA[1]
      b == idsA[2]
      c == idsA[3]
      d == idsA[4]
      e == idsA[5]
      f == idsA[6]
      u == idsB[1]
      v == idsB[2]
      w == idsB[3]
      x == idsB[4]
      y == idsB[5]
      z == idsB[6]
      s0 == switchDistB(S, u, v, w, x, 0 - 1)
      s1 == doDel(s0, "A", a, "netCnxs", e)
      s2 == doDel(s1, "A", b, "netCnxs", d)
      s3 == doInsert(s2, "A", a, "netCnxs", d, b, c)
      s4 == doInsert(s3, "A", b, "netCnxs", e, a, f)
      s5 == doSwap(s4, "A", d, "netCnxs", b, a)
      s6 == doSwap(s5, "A", e, "netCnxs", a, b)
      s7 == doSwap(s6, "A", a, "dualCnxs", v, x)
      s8 == doSwap(s7, "A", b, "dualCnxs", u, w)
      s9 == doSwapBetween(s8, "B", u, "netCnxs", v, 0 - 1, x, y)
      s10 == doSwapBetween(s9, "B", v, "netCnxs", u, 0 - 1, w, z)
      s11 == doDel(s10, "B", u, "netCnxs", 0 - 1)
      s12 == doDel(s11, "B", v, "netCnxs", 0 - 1)
      s13 == doInsert(s12, "B", w, "netCnxs", x, y, v)
      s14 == doInsert(s13, "B", x, "netCnxs", w, u, z)
      s15 == switchDualB(s14, a, b, d, e, u, v, w, x)
      s16 == doDel(s15, "B", v, "auxCnxs", y)
      s17 == doDel(s16, "B", u, "auxCnxs", z)
      s18 == doSwap(s17, "B", y, "auxCnxs", v, x)
      s19 == doSwap(s18, "B", z, "auxCnxs", u, w)
      s20 == doAdd(s19, "B", x, "auxCnxs", y)
      s21 == doAdd(s20, "B", w, "auxCnxs", z)
  IN switchDistB(s21, u, v, w, x, 1)

switchCnx43(S, idsA, idsB) ==
  LET a == idsA[1]
      b == idsA[2]
      c == idsA[3]
      d == idsA[4]
      e == idsA[5]
      u == idsB[1]
      v == idsB[2]
      w == idsB[3]
      x == idsB[4]
      y == idsB[5]
      m4 == [[[[S.edA EXCEPT ![Deg(S.A, a)][Deg(S.A, e)] = @ - 1]
                          EXCEPT ![Deg(S.A, b)][Deg(S.A, d)] = @ - 1]
                          EXCEPT ![Deg(S.A, e)][Deg(S.A, a)] = @ - 1]
                          EXCEPT ![Deg(S.A, d)][Deg(S.A, b)] = @ - 1]
      s0 == switchDistB([S EXCEPT !.edA = m4], u, v, w, x, 0 - 1)
      s1 == doDel(s0, "A", a, "netCnxs", e)
      s2 == doSwap(s1, "A", b, "netCnxs", d, e)
      s3 == doInsert(s2, "A", a, "netCnxs", d, b, c)
      s4 == doSwap(s3, "A", d, "netCnxs", b, a)
      s5 == doSwap(s4, "A", e, "netCnxs", a, b)
      s6 == doSwap(s5, "A", a, "dualCnxs", v, x)
      s7 == doSwap(s6, "A", b, "dualCnxs", u, w)
      s8 == doSwapBetween(s7, "B", u, "netCnxs", v, 0 - 1, x, y)
      s9 == doSwapBetween(s8, "B", v, "netCnxs", u, 0 - 1, w, x)
      s10 == doDel(s9, "B", u, "netCnxs", 0 - 1)
      s11 == doDel(s10, "B", v, "netCnxs", 0 - 1)
      s12 == doInsert(s11, "B", w, "netCnxs", x, y, v)
      s13 == doInsert(s12, "B", x, "netCnxs", w, u, v)
      s14 == switchDualB(s13, a, b, d, e, u, v, w, x)
      s15 == doDel(s14, "B", v, "auxCnxs", y)
      s16 == doSwap(s15, "B", y, "auxCnxs", v, x)
      s17 == doAdd(s16, "B", x, "auxCnxs", y)
      p4 == [[[[s17.edA EXCEPT ![Deg(S.A, a)][Deg(S.A, d)] = @ + 1]
                            EXCEPT ![Deg(S.A, b)][Deg(S.A, e)] = @ + 1]
                            EXCEPT ![Deg(S.A, d)][Deg(S.A, a)] = @ + 1]
                            EXCEPT ![Deg(S.A, e)][Deg(S.A, b)] = @ + 1]
  IN IF s17.err THEN s17 ELSE switchDistB([s17 EXCEPT !.edA = p4], u, v, w, x, 1)

\* The descriptor update of the mix move on one network: the node counts of
\* p and q and their two neighbour loops, each skipping the other.
mixDist(nd, ed, N, p, q, by) ==
  [nd |-> nodeCount(nd, N, <<p, q>>, by, 1),
   ed |-> edgeLoop(edgeLoop(ed, N, p, {q}, by, 1), N, q, {p}, by, 1)]

mixDistAB(S, a, b, v, x, by) ==
  IF S.err THEN S
  ELSE LET dA == mixDist(S.ndA, S.edA, S.A, a, b, by)
           dB == mixDist(S.ndB, S.edB, S.B, v, x, by)
       IN [S EXCEPT !.ndA = dA.nd, !.edA = dA.ed, !.ndB = dB.nd, !.edB = dB.ed]

\* The mix move in which atom a keeps e in its netCnxs.
mixCnxKeepingBond(S, idsA, idsB) ==
  LET a == idsA[1]
      b == idsA[2]
      e == idsA[5]
      f == idsA[6]
      u == idsB[1]
      v == idsB[2]
      w == idsB[3]
      x == idsB[4]
      y == idsB[5]
      z == idsB[6]
      xx == idsB[7]
      s0 == mixDistAB(S, a, b, v, x, 0 - 1)
      s2 == doInsert(s0, "A", b, "netCnxs", e, a, f)
      s3 == doSwap(s2, "A", e, "netCnxs", a, b)
      s4 == doDel(s3, "A", a, "dualCnxs", v)
      s5 == doInsert(s4, "A", b, "dualCnxs", x, u, v)
      s6 == doSwapBetween(s5, "B", v, "netCnxs", u, 0 - 1, x, z)
      s7 == doDel(s6, "B", v, "netCnxs", 0 - 1)
      s8 == doInsert(s7, "B", x, "netCnxs", u, xx, v)
      s9 == doSwapBetween(s8, "B", u, "netCnxs", v, x, w, y)
      s10 == doDel(s9, "B", v, "dualCnxs", a)
      s11 == doInsert(s10, "B", x, "dualCnxs", b, a, e)
  IN mixDistAB(s11, a, b, v, x, 1)

mixCnx(S, idsA, idsB) ==
  LET a == idsA[1]
      b == idsA[2]
      e == idsA[5]
      f == idsA[6]
      u == idsB[1]
      v == idsB[2]
      w == idsB[3]
      x == idsB[4]
      y == idsB[5]
      z == idsB[6]
      xx == idsB[7]
      s0 == mixDistAB(S, a, b, v, x, 0 - 1)
      s1 == doDel(s0, "A", a, "netCnxs", e)
      s2 == doInsert(s1, "A", b, "netCnxs", e, a, f)
      s3 == doSwap(s2, "A", e, "netCnxs", a, b)
      s4 == doDel(s3, "A", a, "dualCnxs", v)
      s5 == doInsert(s4, "A", b, "dualCnxs", x, u, v)
      s6 == doSwapBetween(s5, "B", v, "netCnxs", u, 0 - 1, x, z)
      s7 == doDel(s6, "B", v, "netCnxs", 0 - 1)
      s8 == doInsert(s7, "B", x, "netCnxs", u, xx, v)
      s9 == doSwapBetween(s8, "B", u, "netCnxs", v, x, w, y)
      s10 == doDel(s9, "B", v, "dualCnxs", a)
      s11 == doInsert(s10, "B", x, "dualCnxs", b, a, e)
  IN mixDistAB(s11, a, b, v, x, 1)

(* ------------------------- geometry and energy ------------------------ *)
\* FALSE when an edge of ring id lies on more than two rings.
checkThreeRingEdges(A, B, id) ==
  LET ring == B[id].dualCnxs
  IN \A i \in DOMAIN ring :
        Len(vCommonValues(A[ring[i]].dualCnxs,
                          A[ring[Next1(ring, i)]].dualCnxs)) <= 2

\* convexRearrangement handles the connection types 33, 34 and 44 and throws
\* for any other; FALSE is the throw.
convexRearrangement(cnxType) == cnxType \in {33, 34, 44}

\* How the evaluated energy compares with the saved one.
Energies == {"lower", "higher"}

\* The Metropolis test: a move that does not raise the energy is accepted, one
\* that raises it by a finite amount is accepted on the random draw rnd, one
\* of infinite energy has acceptance probability zero.
acceptanceCriterion(energy, rnd) ==
  energy = "lower" \/ (energy = "higher" /\ rnd)

(* ------------------------------- steps -------------------------------- *)
Current == Nets(nodesA, nodesB, nodeDistA, nodeDistB, edgeDistA, edgeDistB)

\* The coordinates written by the step that is running.
NewCrds == steps + 1

Ended(kind, outcome, found, accepted, S, c, cnxType, g, geometryOK, energy) ==
  [S |-> S, crds |-> c,
   last |-> [kind |-> kind, outcome |-> outcome, found |-> found,
             accepted |-> accepted, cnxType |-> cnxType,
             idsA |-> g.idsA, idsB |-> g.idsB,
             geometryOK |-> geometryOK, energy |-> energy,
             exhausted |-> FALSE, optimised |-> FALSE,
             pick |-> Picked("none", 0, Unassigned, Unassigned, Unassigned,
                             Unassigned)]]

\* How a step ends for a picker or generator result that is not a descriptor.
Outcome(res) ==
  IF res \in {"throw", "debugThrow"} THEN "threw" ELSE res

\* A step that ends while it selects: the picker or the generator threw,
\* called exit(9) or read an unassigned value.  The paths "debugThrow" and
\* "exit" call wrapCoordinates, which rewrites crds, before they end.
Aborted(kind, res, cnxType) ==
  Ended(kind, Outcome(res), FALSE, FALSE, Current,
        IF res \in {"debugThrow", "exit"} THEN NewCrds ELSE crds,
        cnxType, Rejected, FALSE, "none")

\* A step whose every attempt was rejected by the generator.
Exhausted(kind, outcome) ==
  [Ended(kind, outcome, FALSE, FALSE, Current, crds, 0, Rejected, FALSE, "none")
     EXCEPT !.last.exhausted = TRUE]

\* A restore that puts back only the first four nodes of the descriptor.
restoreNodesFirstFour(N, saved, ids) ==
  [id \in DOMAIN N |->
     IF \E i \in DOMAIN ids : i <= 4 /\ ids[i] = id THEN saved[id] ELSE N[id]]

\* The nodes listed in ids put back from the saved network.
restoreNodes(N, saved, ids) ==
  [id \in DOMAIN N |-> IF vContains(ids, id) THEN saved[id] ELSE N[id]]

\* The restore of a step function: the four distributions and the nodes
\* named in the descriptor.
restore(S, saved, idsA, idsB) ==
  [S EXCEPT !.A = restoreNodes(S.A, saved.A, idsA),
            !.B = restoreNodes(S.B, saved.B, idsB),
            !.ndA = saved.ndA, !.ndB = saved.ndB,
            !.edA = saved.edA, !.edB = saved.edB]

applySwitch(S, cnxType, idsA, idsB) ==
  IF cnxType = 33 THEN switchCnx33(S, idsA, idsB)
  ELSE IF cnxType = 44 THEN switchCnx44(S, idsA, idsB)
  ELSE switchCnx43(S, idsA, idsB)

\* The two geometry checks of ring u and ring v after the move.
threeRingEdges(M, p) ==
  checkThreeRingEdges(M.A, M.B, p.u) /\ checkThreeRingEdges(M.A, M.B, p.v)

\* R of a step that called a geometry optimiser or a potential energy after
\* its move (called), or went from the checks straight to the infinite energy.
evaluated(R, called) == [R EXCEPT !.last.optimised = called]

\* The end of the two LAMMPS step functions for the moved networks M:
\* geometry checks, minimisation, Metropolis, then keep or restore.
decideLAMMPS(kind, p, g, M, convex, energy, rnd) ==
  LET three == threeRingEdges(M, p)
      rearranged == three /\ cfg.isMaintainConvexityEnabled
      geometryOK == three /\ (cfg.isMaintainConvexityEnabled => convex)
      E == IF geometryOK THEN energy ELSE "infinite"
      isAccepted == IF cfg.MC_Routine \in {1, 2, 5}
                      THEN acceptanceCriterion(E, rnd) ELSE FALSE
  IN IF M.err
       THEN Ended(kind, "threw", TRUE, FALSE, M, crds, p.cnxType, g, FALSE, "none")
     ELSE IF rearranged /\ ~convexRearrangement(p.cnxType)
       THEN Ended(kind, "threw", TRUE, FALSE, M, crds, p.cnxType, g, FALSE, "none")
     ELSE evaluated(
       IF isAccepted
         THEN Ended(kind, "returned", TRUE, TRUE, M, NewCrds, p.cnxType, g, geometryOK, E)
       ELSE Ended(kind, "returned", TRUE, FALSE,
                  restore(M, Current, g.idsA, g.idsB), crds, p.cnxType, g, geometryOK, E),
       geometryOK)

\* The end of monteCarloSwitchMove and of monteCarloMixMove: the branch
\* taken when isAccepted holds is the one that puts the snapshot back.
decide(kind, p, g, M, convex, energy, rnd) ==
  LET three == threeRingEdges(M, p)
      rearranged == /\ kind = "monteCarloSwitchMove"
                    /\ three /\ cfg.isMaintainConvexityEnabled
      geometryOK == three /\ (cfg.isMaintainConvexityEnabled => convex)
      E == IF geometryOK THEN energy ELSE "infinite"
      isAccepted == acceptanceCriterion(E, rnd)
  IN IF M.err
       THEN Ended(kind, "threw", TRUE, FALSE, M, crds, p.cnxType, g, FALSE, "none")
     ELSE IF rearranged /\ ~convexRearrangement(p.cnxType)
       THEN Ended(kind, "threw", TRUE, FALSE, M, crds, p.cnxType, g, FALSE, "none")
     ELSE evaluated(
       IF isAccepted
         THEN Ended(kind, "returned", TRUE, TRUE,
                    restore(M, Current, g.idsA, g.idsB), crds, p.cnxType, g, geometryOK, E)
       ELSE Ended(kind, "returned", TRUE, FALSE, M,
                  IF three THEN NewCrds ELSE crds, p.cnxType, g, geometryOK, E),
       IF kind = "monteCarloMixMove" THEN three ELSE geometryOK)

\* A step that ended while it selected, as R, and a step that found the
\* descriptor g and applied the move, which made the networks M.
Stopped(R) == [stopped |-> TRUE, R |-> R]

Moved(kind, p, g, M) == [stopped |-> FALSE, kind |-> kind, p |-> p, g |-> g, M |-> M]

\* What follows the selecting loop of a switch step whose decisive draw gave
\* the pick p and the generator result g: a draw the generator accepts goes
\* on to the snapshot and the move; a draw that throws ends the step; a draw
\* the generator rejects can be every attempt of the loop, which then ends
\* as exhausted.
switchFound(kind, p, g, exhausted) ==
  IF g.res = "reject" THEN Stopped(Exhausted(kind, exhausted))
  ELSE IF g.res # "ok" THEN Stopped(Aborted(kind, g.res, p.cnxType))
  ELSE Moved(kind, p, g, applySwitch(Current, p.cnxType, g.idsA, g.idsB))

\* T with the picker's outputs p, the a, b, u, v of the step function, kept.
handed(T, p) ==
  IF T.stopped THEN [T EXCEPT !.R.last.pick = p] ELSE T

switchSelect(kind, p, exhausted) ==
  handed(IF p.res # "ok" THEN Stopped(Aborted(kind, p.res, p.cnxType))
         ELSE switchFound(kind, p,
                          generateSwitchIds34(nodesA, nodesB, cfg, p.cnxType,
                                              p.a, p.b, p.u, p.v),
                          exhausted),
         p)

mixFound(kind, p, g) ==
  IF g.res = "reject" THEN Stopped(Exhausted(kind, "threw"))
  ELSE IF g.res # "ok" THEN Stopped(Aborted(kind, g.res, p.cnxType))
  ELSE IF \E i \in DOMAIN g.idsB : g.idsB[i] < 0
    THEN Stopped(Aborted(kind, "undefined", p.cnxType))
  ELSE Moved(kind, p, g, mixCnx(Current, g.idsA, g.idsB))

mixSelect(kind, p) ==
  handed(IF p.res # "ok" THEN Stopped(Aborted(kind, p.res, p.cnxType))
         ELSE mixFound(kind, p,
                       generateMixIds(nodesA, nodesB, cfg, p.cnxType,
                                      p.a, p.b, p.u, p.v)),
         p)

\* The step functions, from the state T in which the move left them.
\* networkA.nodes.n squared attempts; a loop that finds no move throws.
monteCarloSwitchMoveLAMMPS(T, convex, energy, rnd) ==
  IF T.stopped THEN T.R
  ELSE [decideLAMMPS(T.kind, T.p, T.g, T.M, convex, energy, rnd)
          EXCEPT !.last.pick = T.p]

\* The spiral step: the caller gives a; ten attempts; a loop that finds no
\* move returns the status (0, 0, 0).
SpiralmonteCarloSwitchMoveLAMMPS(T, convex, energy, rnd) ==
  IF T.stopped THEN T.R
  ELSE [decideLAMMPS(T.kind, T.p, T.g, T.M, convex, energy, rnd)
          EXCEPT !.last.pick = T.p]

monteCarloSwitchMove(T, convex, energy, rnd) ==
  IF T.stopped THEN T.R
  ELSE [decide(T.kind, T.p, T.g, T.M, convex, energy, rnd)
          EXCEPT !.last.pick = T.p]

monteCarloMixMove(T, convex, energy, rnd) ==
  IF T.stopped THEN T.R
  ELSE [decide(T.kind, T.p, T.g, T.M, convex, energy, rnd)
          EXCEPT !.last.pick = T.p]

(* --------------------- construction and the run ----------------------- *)
\* The RNG draws node0, and the spiral caller gives a, in 0 .. MaxPick.
MaxPick == 1

Lattices ==
  [Hex12 |-> [A |-> Hex12A, B |-> Hex12B],
   Hex5 |-> [A |-> Hex5A, B |-> Hex5B],
   Sq44 |-> [A |-> Sq44A, B |-> Sq44B],
   Sq7 |-> [A |-> Sq7A, B |-> Sq7B]]

getMinCnxs(N) ==
  CHOOSE k \in Degrees : /\ \E id \in DOMAIN N : Deg(N, id) = k
                         /\ \A id \in DOMAIN N : Deg(N, id) >= k

getMaxCnxs(N) ==
  CHOOSE k \in Degrees : /\ \E id \in DOMAIN N : Deg(N, id) = k
                         /\ \A id \in DOMAIN N : Deg(N, id) <= k

\* A constructor that takes the configured limits as they are.
LinkedNetworkAsRequested(lattice, minCoordination, maxCoordination, minRingSize, maxRingSize, isMaintainConvexityEnabledArg, routine) ==
  [lattice |-> lattice,
   minACnxs |-> minCoordination, maxACnxs |-> maxCoordination,
   minBCnxs |-> minRingSize, maxBCnxs |-> maxRingSize,
   isMaintainConvexityEnabled |-> isMaintainConvexityEnabledArg,
   MC_Routine |-> routine,
   fixedRings |-> <<>>,
   MCWeighting |-> "random"]

\* The constructor that loads the networks: the configured limits widen the
\* limits found in the files and never narrow them.  initialisePotentialModel
\* sets isMaintainConvexityEnabled.
LinkedNetwork(lattice, minCoordination, maxCoordination, minRingSize, maxRingSize, isMaintainConvexityEnabledArg, routine) ==
  LET A == Lattices[lattice].A
      B == Lattices[lattice].B
  IN [lattice |-> lattice,
      minACnxs |-> IF minCoordination <= getMinCnxs(A)
                     THEN minCoordination ELSE getMinCnxs(A),
      maxACnxs |-> IF maxCoordination >= getMaxCnxs(A)
                     THEN maxCoordination ELSE getMaxCnxs(A),
      minBCnxs |-> IF minRingSize <= getMinCnxs(B)
                     THEN minRingSize ELSE getMinCnxs(B),
      maxBCnxs |-> IF maxRingSize >= getMaxCnxs(B)
                     THEN maxRingSize ELSE getMaxCnxs(B),
      isMaintainConvexityEnabled |-> isMaintainConvexityEnabledArg,
      MC_Routine |-> routine,
      fixedRings |-> <<>>,
      MCWeighting |-> "random"]

\* fixedRings as findFixedRings reads it from the file.
findFixedRings(c0, rings) == [c0 EXCEPT !.fixedRings = rings]

\* MCWeighting as the caller sets it for weighted selection.
weighted(c0) == [c0 EXCEPT !.MCWeighting = "weighted"]

\* No step function is between its move and its Metropolis test.
NotEvaluating == [pc |-> "idle"]

Configs ==
  {LinkedNetwork("Hex12", 2, 4, 5, 7, FALSE, 1),
   LinkedNetwork("Hex5", 3, 3, 5, 7, FALSE, 1),
   LinkedNetwork("Sq44", 3, 4, 3, 7, TRUE, 2),
   LinkedNetwork("Sq44", 3, 4, 3, 7, FALSE, 1),
   LinkedNetwork("Hex12", 2, 4, 6, 7, FALSE, 1),
   LinkedNetwork("Sq44", 3, 4, 3, 7, FALSE, 4),
   findFixedRings(LinkedNetwork("Hex12", 2, 4, 5, 7, FALSE, 1), <<4>>),
   weighted(LinkedNetwork("Sq44", 3, 4, 3, 7, FALSE, 1))}

Init ==
  /\ cfg \in Configs
  /\ nodesA = Lattices[cfg.lattice].A
  /\ nodesB = Lattices[cfg.lattice].B
  /\ nodeDistA = checkNode(nodesA)
  /\ nodeDistB = checkNode(nodesB)
  /\ edgeDistA = checkEdge(nodesA)
  /\ edgeDistB = checkEdge(nodesB)
  /\ crds = 0
  /\ steps = 0
  /\ pre = [S |-> Current, crds |-> 0]
  /\ evaluation = NotEvaluating
  /\ last = [kind |-> "none", outcome |-> "returned", found |-> FALSE,
             accepted |-> FALSE, cnxType |-> 0, idsA |-> <<>>, idsB |-> <<>>,
             geometryOK |-> FALSE, energy |-> "none", exhausted |-> FALSE,
             optimised |-> FALSE,
             pick |-> Picked("none", 0, Unassigned, Unassigned, Unassigned,
                             Unassigned)]

\* A step function can be called while the program runs: no earlier step
\* ended in an exception, in exit(9) or in undefined behaviour.
Running == steps < MaxSteps /\ last.outcome = "returned"

Picks == {n \in DOMAIN nodesA : n <= MaxPick}

\* The state after a step that ended as R.
Step(R) ==
  /\ R.last.outcome # "redraw"
  /\ nodesA' = R.S.A
  /\ nodesB' = R.S.B
  /\ nodeDistA' = R.S.ndA
  /\ nodeDistB' = R.S.ndB
  /\ edgeDistA' = R.S.edA
  /\ edgeDistB' = R.S.edB
  /\ crds' = R.crds
  /\ steps' = steps + 1
  /\ pre' = [S |-> Current, crds |-> crds]
  /\ last' = R.last
  /\ UNCHANGED cfg

\* The step functions: the draws of the selecting loop, then what the
\* optimiser (convex), the energy evaluation and the Metropolis draw return.
StepSwitchLAMMPSFrom(T) ==
  \E convex \in BOOLEAN, energy \in Energies, rnd \in BOOLEAN :
     Step(monteCarloSwitchMoveLAMMPS(T, convex, energy, rnd)) /\ UNCHANGED evaluation

StepSwitchLAMMPS ==
  /\ Running
  /\ \E node0 \in Picks, dir \in 0 .. 1 :
       \E cnx \in DOMAIN nodesA[node0].netCnxs :
          StepSwitchLAMMPSFrom(
            switchSelect("monteCarloSwitchMoveLAMMPS",
                         IF cfg.MCWeighting = "weighted"
                           THEN pickDiscreteCnx34(nodesA, nodesB, cfg.fixedRings,
                                                  node0, cnx, dir)
                           ELSE pickRandomCnx34(nodesA, nodesB, cfg.fixedRings,
                                                node0, cnx, dir),
                         "threw"))

StepSpiralFrom(T) ==
  \E convex \in BOOLEAN, energy \in Energies, rnd \in BOOLEAN :
     Step(SpiralmonteCarloSwitchMoveLAMMPS(T, convex, energy, rnd)) /\ UNCHANGED evaluation

StepSpiral ==
  /\ Running
  /\ \E a \in Picks, dir \in 0 .. 1 :
       \E cnx \in DOMAIN nodesA[a].netCnxs :
          StepSpiralFrom(
            switchSelect("SpiralmonteCarloSwitchMoveLAMMPS",
                         pickSpiralCnx34(nodesA, a, cnx, dir),
                         "returned"))

StepSwitchFrom(T) ==
  \E convex \in BOOLEAN, energy \in Energies, rnd \in BOOLEAN :
     Step(monteCarloSwitchMove(T, convex, energy, rnd)) /\ UNCHANGED evaluation

StepSwitch ==
  /\ Running
  /\ \E node0 \in Picks, dir \in 0 .. 1 :
       \E cnx \in DOMAIN nodesA[node0].netCnxs :
          StepSwitchFrom(
            switchSelect("monteCarloSwitchMove",
                         pickRandomCnx34(nodesA, nodesB, cfg.fixedRings,
                                         node0, cnx, dir),
                         "threw"))

StepMixFrom(T) ==
  \E convex \in BOOLEAN, energy \in Energies, rnd \in BOOLEAN :
     Step(monteCarloMixMove(T, convex, energy, rnd)) /\ UNCHANGED evaluation

StepMix ==
  /\ Running
  /\ \E n0 \in Picks, dir \in 0 .. 1 :
       \E cnx \in DOMAIN nodesA[n0].netCnxs :
          StepMixFrom(
            mixSelect("monteCarloMixMove",
                      pickRandomCnx(nodesA, nodesB, n0, cnx, dir)))

Next == StepSwitchLAMMPS \/ StepSpiral \/ StepSwitch \/ StepMix

Spec == Init /\ [][Next]_vars


(* ----------------------------- properties ----------------------------- *)
\* A step function was called and returned its status.
Completed == steps > 0 /\ last.outcome = "returned"

\* Networks, distributions and coordinates are those the last step began with.
AsBefore == Current = pre.S /\ crds = pre.crds

\* What the move of the last step's descriptor makes of the networks and
\* distributions the step began with.
MoveOfLast ==
  IF last.kind = "monteCarloMixMove" THEN mixCnx(pre.S, last.idsA, last.idsB)
  ELSE applySwitch(pre.S, last.cnxType, last.idsA, last.idsB)

\* C1: in every step function, a step that returns with status[0] = 0 leaves
\* every node's netCnxs, dualCnxs and auxCnxs of A and B, the four
\* distribution tables and crds as they were when the step began.
C1_RejectRestoresSnapshot ==
  (Completed /\ ~last.accepted) => AsBefore

\* C2: in every step function, a step that returns with status[0] = 1 leaves
\* the networks and distributions as the switch or mix made them, which is
\* not the topology the step began with.
C2_AcceptCommitsMove ==
  (Completed /\ last.accepted) => (Current = MoveOfLast /\ Current # pre.S)

\* C3: once switchCnx33/44/43 or mixCnx has run, a step that is left by an
\* exception, which accepts nothing, leaves the networks and distributions
\* reverted to those the step began with.
C3_ThrowAfterMoveReverts ==
  (steps > 0 /\ last.found /\ last.outcome = "threw") => Current = pre.S

\* j is in netCnxs(i) exactly when i is in netCnxs(j), for the nodes of N.
mutualNetCnx(N) ==
  \A i, j \in DOMAIN N : vContains(N[i].netCnxs, j) <=> vContains(N[j].netCnxs, i)

\* Ring j is in dualCnxs of atom i exactly when i is in dualCnxs of ring j.
mutualDualCnx(A, B) ==
  \A i \in DOMAIN A, j \in DOMAIN B :
     vContains(A[i].dualCnxs, j) <=> vContains(B[j].dualCnxs, i)

netDualEquality(N) ==
  \A i \in DOMAIN N : Len(N[i].netCnxs) = Len(N[i].dualCnxs)

\* The cached tables equal the recount of checkDescriptorConsistency.
consistentDescriptors(S) ==
  /\ S.ndA = checkNode(S.A)
  /\ S.ndB = checkNode(S.B)
  /\ S.edA = checkEdge(S.A)
  /\ S.edB = checkEdge(S.B)

withinLimits(A, B, c0) ==
  /\ \A i \in DOMAIN B : c0.minBCnxs <= Deg(B, i) /\ Deg(B, i) <= c0.maxBCnxs
  /\ \A i \in DOMAIN A : c0.minACnxs <= Deg(A, i) /\ Deg(A, i) <= c0.maxACnxs

\* The last step applied a move and returned with the move in the networks.
MoveKept == Completed /\ last.found /\ Current # pre.S

\* C4: after every completed step, of any kind and accepted or rejected,
\* j is in netCnxs(i) if and only if i is in netCnxs(j), in A and in B.
C4_MutualAdjacency ==
  Completed => (mutualNetCnx(nodesA) /\ mutualNetCnx(nodesB))

C4_Witness ==
  /\ steps = 2 /\ MoveKept /\ last.accepted /\ last.cnxType = 33
  /\ pre.S.A # Lattices[cfg.lattice].A

\* C5: after every completed step, ring j is in dualCnxs of atom i if and
\* only if atom i is in dualCnxs of ring j.
C5_DualMutuality ==
  Completed => mutualDualCnx(nodesA, nodesB)

C5_Witness ==
  MoveKept /\ last.kind = "monteCarloMixMove"

\* C6: after every completed step every node of A and of B has as many
\* netCnxs entries as dualCnxs entries, also where a ring that loses a
\* neighbour meets that neighbour more than once.
C6_DegreeDualParity ==
  Completed => (netDualEquality(nodesA) /\ netDualEquality(nodesB))

C6_Witness ==
  /\ MoveKept /\ last.kind # "monteCarloMixMove"
  /\ Cardinality({i \in DOMAIN pre.S.B[last.idsB[1]].netCnxs :
                    pre.S.B[last.idsB[1]].netCnxs[i] = last.idsB[2]}) > 1

\* C7: after every applied move and every completed step of a sequence, each
\* nodeDistribution and edgeDistribution equals its recount.
C7_DistributionRecount ==
  /\ Completed => consistentDescriptors(Current)
  /\ (steps > 0 /\ last.found /\ ~MoveOfLast.err) => consistentDescriptors(MoveOfLast)

C7_Witness ==
  steps = 2 /\ MoveKept /\ last.cnxType = 43 /\ pre.S.A # Lattices[cfg.lattice].A

\* C8: from networks within the limits, after every completed step every ring
\* has between minBCnxs and maxBCnxs netCnxs entries and every atom between
\* minACnxs and maxACnxs.
C8_RingBoundEnforcement ==
  Completed => withinLimits(nodesA, nodesB, cfg)

C8_Witness ==
  /\ steps = 2 /\ MoveKept
  /\ \E i \in DOMAIN nodesB : Deg(nodesB, i) = cfg.minBCnxs
  /\ \E i \in DOMAIN nodesB : Deg(nodesB, i) = cfg.maxBCnxs

\* C9: for every descriptor the generator accepted, the move followed by the
\* restore of the listed nodes and the four tables gives back every list of
\* every node, and the move changes no node that the descriptor does not list.
C9_RevertExactness ==
  (steps > 0 /\ last.found) =>
     /\ restore(MoveOfLast, pre.S, last.idsA, last.idsB) =
          [pre.S EXCEPT !.err = MoveOfLast.err]
     /\ \A id \in DOMAIN nodesA :
          vContains(last.idsA, id) \/ MoveOfLast.A[id] = pre.S.A[id]
     /\ \A id \in DOMAIN nodesB :
          vContains(last.idsB, id) \/ MoveOfLast.B[id] = pre.S.B[id]

C9_Witness ==
  /\ Completed /\ last.found /\ ~last.accepted /\ last.cnxType = 44
  /\ last.kind = "monteCarloSwitchMoveLAMMPS"
  /\ MoveOfLast # pre.S /\ AsBefore

\* C10: in every step function, a selecting loop that uses up its attempts
\* ends the step with an error given to the caller, not with a status, and
\* with networks, distributions and crds as they were.
C10_ExhaustionIsFatal ==
  (steps > 0 /\ last.exhausted) => (last.outcome = "threw" /\ AsBefore)


(* ------------------------ the selecting phase ------------------------- *)
\* The selecting loop of a step function, one pass of a picker at a time.
\* steps is the loop counter i and last.outcome is "selecting" until the loop
\* is left.  last.pick holds the a, b, u, v that a picker is redrawing or
\* that the loop was left with; those of a pass the generator rejected are
\* overwritten by the next pass before anything reads them.
SPIRAL_ATTEMPTS == 10

StepFunctions ==
  {"monteCarloSwitchMoveLAMMPS", "SpiralmonteCarloSwitchMoveLAMMPS",
   "monteCarloSwitchMove", "monteCarloMixMove"}

\* The number of passes of the for loop of the step function.
attempts(kind) ==
  IF kind = "SpiralmonteCarloSwitchMoveLAMMPS" THEN SPIRAL_ATTEMPTS
  ELSE Cardinality(DOMAIN nodesA) * Cardinality(DOMAIN nodesA)

\* What a step function does when its loop ends with foundValidMove false.
whenExhausted(kind) ==
  IF kind = "SpiralmonteCarloSwitchMoveLAMMPS" THEN "returned" ELSE "threw"

SelectingConfigs ==
  {LinkedNetwork("Hex5", 3, 3, 5, 7, FALSE, 1),
   findFixedRings(LinkedNetwork("Hex5", 3, 3, 5, 7, FALSE, 1), <<0>>),
   findFixedRings(LinkedNetwork("Hex12", 2, 4, 5, 7, FALSE, 1),
                  <<0, 5, 6, 8, 11>>)}

\* a, b, u, v before a picker assigned them; the spiral step is given a.
NotPicked(a) == Picked("none", 0, a, Unassigned, Unassigned, Unassigned)

Selecting(kind, i, p) ==
  [Ended(kind, "selecting", FALSE, FALSE, Current, crds, 0, Rejected, FALSE,
         "none").last EXCEPT !.pick = p]

SelectingInit ==
  /\ cfg \in SelectingConfigs
  /\ nodesA = Lattices[cfg.lattice].A
  /\ nodesB = Lattices[cfg.lattice].B
  /\ nodeDistA = checkNode(nodesA)
  /\ nodeDistB = checkNode(nodesB)
  /\ edgeDistA = checkEdge(nodesA)
  /\ edgeDistB = checkEdge(nodesB)
  /\ crds = 0
  /\ steps = 0
  /\ pre = [S |-> Current, crds |-> 0]
  /\ evaluation = NotEvaluating
  /\ \E kind \in StepFunctions, a \in DOMAIN nodesA \cup {Unassigned} :
        /\ (kind = "SpiralmonteCarloSwitchMoveLAMMPS") <=> (a # Unassigned)
        /\ last = Selecting(kind, 0, NotPicked(a))

\* The loop after the pass that picked p and generated g.
passed(kind, p, g) ==
  IF p.res # "ok"
    THEN [Selecting(kind, steps, p) EXCEPT !.outcome = Outcome(p.res)]
  ELSE IF g.res = "ok"
    THEN [Selecting(kind, steps, p) EXCEPT !.outcome = "found", !.found = TRUE,
                                           !.cnxType = p.cnxType,
                                           !.idsA = g.idsA, !.idsB = g.idsB]
  ELSE IF g.res = "reject"
    THEN IF steps + 1 < attempts(kind)
           THEN Selecting(kind, steps,
                          NotPicked(IF kind = "SpiralmonteCarloSwitchMoveLAMMPS"
                                      THEN last.pick.a ELSE Unassigned))
         ELSE [Selecting(kind, steps, p) EXCEPT !.outcome = whenExhausted(kind),
                                                !.exhausted = TRUE]
  ELSE [Selecting(kind, steps, p) EXCEPT !.outcome = Outcome(g.res)]

Pass(kind, p, g) ==
  /\ last' = passed(kind, p, g)
  /\ steps' = IF p.res = "ok" /\ g.res = "reject" THEN steps + 1 ELSE steps
  /\ crds' = IF "debugThrow" \in {p.res, g.res} \/ "exit" \in {p.res, g.res}
               THEN NewCrds ELSE crds
  /\ UNCHANGED <<nodesA, nodesB, nodeDistA, nodeDistB, edgeDistA, edgeDistB,
                 cfg, pre, evaluation>>

IsSelecting(kinds) == last.outcome = "selecting" /\ last.kind \in kinds

\* A pass of pickRandomCnx34's while loop that drew an edge at a fixed ring.
SelectRedraw ==
  /\ IsSelecting({"monteCarloSwitchMoveLAMMPS", "monteCarloSwitchMove"})
  /\ \E node0 \in DOMAIN nodesA, dir \in 0 .. 1 :
       \E cnx \in DOMAIN nodesA[node0].netCnxs :
          LET p == pickRandomCnx34(nodesA, nodesB, cfg.fixedRings, node0, cnx, dir)
          IN /\ p.res = "redraw"
             /\ last' = Selecting(last.kind, steps, p)
             /\ UNCHANGED <<nodesA, nodesB, nodeDistA, nodeDistB, edgeDistA,
                            edgeDistB, crds, cfg, steps, pre, evaluation>>

\* A pass of the for loop with pickRandomCnx34 and generateSwitchIds34.
SelectSwitch ==
  /\ IsSelecting({"monteCarloSwitchMoveLAMMPS", "monteCarloSwitchMove"})
  /\ \E node0 \in DOMAIN nodesA, dir \in 0 .. 1 :
       \E cnx \in DOMAIN nodesA[node0].netCnxs :
          LET p == pickRandomCnx34(nodesA, nodesB, cfg.fixedRings, node0, cnx, dir)
          IN /\ p.res # "redraw"
             /\ Pass(last.kind, p,
                     IF p.res = "ok"
                       THEN generateSwitchIds34(nodesA, nodesB, cfg, p.cnxType,
                                                p.a, p.b, p.u, p.v)
                       ELSE Rejected)

\* A pass of the for loop with pickSpiralCnx34 from the caller's a.
SelectSpiral ==
  /\ IsSelecting({"SpiralmonteCarloSwitchMoveLAMMPS"})
  /\ \E dir \in 0 .. 1 :
       \E cnx \in DOMAIN nodesA[last.pick.a].netCnxs :
          LET p == pickSpiralCnx34(nodesA, last.pick.a, cnx, dir)
          IN Pass(last.kind, p,
                  IF p.res = "ok"
                    THEN generateSwitchIds34(nodesA, nodesB, cfg, p.cnxType,
                                             p.a, p.b, p.u, p.v)
                    ELSE Rejected)

\* A pass of the for loop with pickRandomCnx and generateMixIds.
SelectMix ==
  /\ IsSelecting({"monteCarloMixMove"})
  /\ \E n0 \in DOMAIN nodesA, dir \in 0 .. 1 :
       \E cnx \in DOMAIN nodesA[n0].netCnxs :
          LET p == pickRandomCnx(nodesA, nodesB, n0, cnx, dir)
          IN Pass(last.kind, p,
                  IF p.res = "ok"
                    THEN generateMixIds(nodesA, nodesB, cfg, p.cnxType,
                                        p.a, p.b, p.u, p.v)
                    ELSE Rejected)

SelectingNext == SelectRedraw \/ SelectSwitch \/ SelectSpiral \/ SelectMix

\* The loops of the random-switch steps keep running, and the uniform draws
\* give every edge again and again: a redraw, and a pass that leaves the
\* picker, is taken when it stays possible.
SpecSelecting ==
  /\ SelectingInit /\ [][SelectingNext]_vars
  /\ WF_vars(SelectRedraw) /\ WF_vars(SelectSwitch)

\* ---------------------------------------------------------------------------
\* Properties of selection, evaluation and the moves' effects.
\* ---------------------------------------------------------------------------

RandomSwitchKinds == {"monteCarloSwitchMoveLAMMPS", "monteCarloSwitchMove"}

\* C11: move selection terminates. Whatever the fixed rings, the selecting
\* phase of a random-switch step ends, with a descriptor, an exhausted retry
\* count or an error; it does not draw edges for ever.
C11_SelectionTerminates == <>(~IsSelecting(RandomSwitchKinds))

\* A step applied its move and returned a status.
Evaluated == Completed /\ last.found

\* C12: in every step function, when the geometry check after the move fails
\* (a ring edge on three rings, or a non-convex node with convexity kept),
\* no optimiser and no energy evaluation is called for the move, the move is
\* rejected, and the step returns with topology and distributions as before.
C12_GeometryShortCircuit ==
  (Evaluated /\ ~last.geometryOK) =>
     (~last.optimised /\ ~last.accepted /\ Current = pre.S)

\* C13: in every step function and for every minimisation routine 1 to 5, a
\* move whose evaluated energy is not above the saved energy is accepted.
C13_MetropolisAcceptance ==
  (Evaluated /\ last.energy = "lower") => last.accepted

\* The netCnxs lengths of the nodes of N.
sizes(N) == [id \in DOMAIN N |-> Deg(N, id)]

\* sizes of N with those of the nodes in less lowered and in more raised by 1.
shifted(N, less, more) ==
  [id \in DOMAIN N |->
     Deg(N, id) - (IF id \in less THEN 1 ELSE 0) + (IF id \in more THEN 1 ELSE 0)]

\* Every ring is a hexagon and every atom has three bonds.
hexagonal(S) ==
  /\ \A id \in DOMAIN S.B : Deg(S.B, id) = 6
  /\ \A id \in DOMAIN S.A : Deg(S.A, id) = 3

\* The number of rings of S with n netCnxs entries.
ringsOfSize(S, n) == Cardinality({id \in DOMAIN S.B : Deg(S.B, id) = n})

\* The last step applied a switch, or a mix, of a descriptor its generator
\* accepted.
Switched == steps > 0 /\ last.found /\ last.kind # "monteCarloMixMove"

Mixed == steps > 0 /\ last.found /\ last.kind = "monteCarloMixMove"

PickerReturned ==
  /\ steps > 0
  /\ \/ last.pick.res = "ok"
     \/ last.kind = "monteCarloMixMove" /\ last.pick.res = "undefined"

\* a and b are the ends of a bond of A, u and v two rings on both of them.
bondWithRings(A, B, p) ==
  /\ p.a \in DOMAIN A /\ p.b \in DOMAIN A
  /\ vContains(A[p.a].netCnxs, p.b)
  /\ p.u \in DOMAIN B /\ p.v \in DOMAIN B /\ p.u # p.v
  /\ vContains(A[p.a].dualCnxs, p.u) /\ vContains(A[p.b].dualCnxs, p.u)
  /\ vContains(A[p.a].dualCnxs, p.v) /\ vContains(A[p.b].dualCnxs, p.v)

HandedToGenerator == steps > 0 /\ last.pick.res = "ok"

\* C17: for every kind of move (random switch, spiral switch, mix) the bond
\* (a, b) handed to the move generator has neither end among the dualCnxs of
\* a ring of fixedRings.
C17_FixedNodeExclusion ==
  HandedToGenerator =>
     ~includesFixedRingNode(pre.S.B, cfg.fixedRings, last.pick.a, last.pick.b)

\* C18: over any sequence of steps of any kind, netCnxs, dualCnxs and auxCnxs
\* of every ring of fixedRings stay as they were before the first step.
C18_FixedRingsUntouched ==
  \A i \in DOMAIN cfg.fixedRings :
     nodesB[cfg.fixedRings[i]] = Lattices[cfg.lattice].B[cfg.fixedRings[i]]

\* What generateSwitchIds34 returns for the pick of the last step, under the
\* limits c0.
generatedFor(c0) ==
  generateSwitchIds34(pre.S.A, pre.S.B, c0, last.pick.cnxType,
                      last.pick.a, last.pick.b, last.pick.u, last.pick.v)

\* Ring limits that no ring of the lattice is at.
Unlimited == [cfg EXCEPT !.minBCnxs = 0, !.maxBCnxs = MaxDeg + 1]

\* Ring u or v of the last pick is at the lower limit.
atMinimum ==
  \/ Deg(pre.S.B, last.pick.u) = cfg.minBCnxs
  \/ Deg(pre.S.B, last.pick.v) = cfg.minBCnxs

\* The rings w and x that the generator derives exist and one of them is at
\* the upper limit.
atMaximum ==
  /\ generatedFor(Unlimited).res = "ok"
  /\ \/ Deg(pre.S.B, generatedFor(Unlimited).idsB[3]) = cfg.maxBCnxs
     \/ Deg(pre.S.B, generatedFor(Unlimited).idsB[4]) = cfg.maxBCnxs

\* The last step called generateSwitchIds34 for a bond of type 33, 44 or 43.
SwitchGenerated ==
  /\ HandedToGenerator /\ last.kind # "monteCarloMixMove"
  /\ last.pick.cnxType \in {33, 44, 43}

\* C19: for each of the types 33, 44 and 43, generateSwitchIds34 returns
\* false, without a throw and with networks and descriptor untouched,
\* whenever ring u or v is at the minimum ring size or ring w or x at the
\* maximum.
C19_BoundRejection ==
  (SwitchGenerated /\ (atMinimum \/ atMaximum)) =>
     /\ generatedFor(cfg) = Rejected
     /\ ~last.found /\ last.idsA = <<>> /\ last.idsB = <<>>
     /\ Current = pre.S

C19_Witness ==
  /\ SwitchGenerated /\ ~atMinimum /\ atMaximum /\ last.pick.cnxType = 43
  /\ last.exhausted

(* --------------- generateSwitchIds34 on the bonds of a lattice ---------- *)
\* The lattices on which the generator is called by itself: the square
\* lattice, where a switch makes triangles, which the ring limits [2, 7]
\* leave above the lower limit, the small hexagonal one, and the small
\* square one, where an atom has more than one neighbour on a ring besides b.
GeneratingConfigs ==
  {LinkedNetwork("Sq44", 3, 4, 2, 7, FALSE, 1),
   LinkedNetwork("Hex5", 3, 3, 5, 7, FALSE, 1),
   LinkedNetwork("Sq7", 3, 4, 3, 7, FALSE, 1)}

GeneratingInit ==
  /\ cfg \in GeneratingConfigs
  /\ nodesA = Lattices[cfg.lattice].A
  /\ nodesB = Lattices[cfg.lattice].B
  /\ nodeDistA = checkNode(nodesA)
  /\ nodeDistB = checkNode(nodesB)
  /\ edgeDistA = checkEdge(nodesA)
  /\ edgeDistB = checkEdge(nodesB)
  /\ crds = 0
  /\ steps = 0
  /\ pre = [S |-> Current, crds |-> 0]
  /\ evaluation = NotEvaluating
  /\ last = Ended("none", "returned", FALSE, FALSE, Current, crds, 0, Rejected,
                  FALSE, "none").last

\* The values of the list v.
Values(v) == {v[i] : i \in DOMAIN v}

\* The call generateSwitchIds34(cnxType, ..., a, b, u, v) and its result g.
generated(p, g) ==
  [Ended("generateSwitchIds34",
         IF g.res = "ok" THEN "found"
         ELSE IF g.res = "reject" THEN "rejected" ELSE Outcome(g.res),
         g.res = "ok", FALSE, Current, crds, p.cnxType, g, FALSE, "none").last
     EXCEPT !.pick = p]

GenerateFor(p) ==
  /\ last' = generated(p, generateSwitchIds34(nodesA, nodesB, cfg, p.cnxType,
                                              p.a, p.b, p.u, p.v))
  /\ steps' = steps + 1
  /\ pre' = [S |-> Current, crds |-> crds]
  /\ UNCHANGED <<nodesA, nodesB, nodeDistA, nodeDistB, edgeDistA, edgeDistB,
                 crds, cfg, evaluation>>

\* generateSwitchIds34 called for a node a, a neighbour of a or a itself as
\* b, and two rings, or twice the same ring, that a and b share.
Generate ==
  /\ Running
  /\ \E n0 \in Picks :
       \E n1 \in Values(nodesA[n0].netCnxs) \cup {n0} :
          \E u, v \in Values(nodesA[n0].dualCnxs) \cap Values(nodesA[n1].dualCnxs) :
             LET t == assignValues(n0, n1, Deg(nodesA, n0), Deg(nodesA, n1))
             IN /\ t.cnxType # 0
                /\ GenerateFor(Picked("ok", t.cnxType, t.a, t.b, u, v))

GeneratingNext == StepSwitchLAMMPS \/ Generate

SpecGenerating == GeneratingInit /\ [][GeneratingNext]_vars

\* The node c, d, e or f of the descriptor: the neighbour of idA on ring idB
\* that is not idDel.
flank(cnxType, idA, idB, idDel) ==
  IF cnxType = 33
    THEN findAssociatedNodeAB(pre.S.A, pre.S.B, idA, idB, idDel)
  ELSE LET common == delValue(vCommonValues(pre.S.A[idA].netCnxs,
                                            pre.S.B[idB].dualCnxs), idDel)
       IN IF common = <<>> THEN Unassigned ELSE common[1]

\* c = d or e = f for the arguments of the last call: two triangles that
\* share the bond a-b.
collapsed(p) ==
  \/ /\ flank(p.cnxType, p.a, p.u, p.b) >= 0
     /\ flank(p.cnxType, p.a, p.u, p.b) = flank(p.cnxType, p.b, p.u, p.a)
  \/ /\ flank(p.cnxType, p.a, p.v, p.b) >= 0
     /\ flank(p.cnxType, p.a, p.v, p.b) = flank(p.cnxType, p.b, p.v, p.a)

GeneratorCalled == steps > 0 /\ last.kind = "generateSwitchIds34"

\* C20: generateSwitchIds34 returns false, writes no descriptor and changes
\* nothing when a = b or u = v, and when c = d or e = f.
C20_DegenerateRejected ==
  (GeneratorCalled /\ (\/ last.pick.a = last.pick.b
                       \/ last.pick.u = last.pick.v
                       \/ collapsed(last.pick))) =>
     /\ last.outcome = "rejected" /\ ~last.found
     /\ last.idsA = <<>> /\ last.idsB = <<>>
     /\ AsBefore

C20_Witness ==
  /\ GeneratorCalled /\ last.pick.a # last.pick.b /\ last.pick.u # last.pick.v
  /\ collapsed(last.pick) /\ last.outcome = "rejected"
  /\ Deg(nodesB, last.pick.u) > cfg.minBCnxs
  /\ Deg(nodesB, last.pick.v) > cfg.minBCnxs

\* C21: the switch generator returns false whenever ring u or ring v would
\* be left with three or fewer sides by the switch, for u as for v.
C21_SmallRingRejection ==
  (SwitchGenerated /\ (\/ Deg(pre.S.B, last.pick.u) - 1 <= 3
                       \/ Deg(pre.S.B, last.pick.v) - 1 <= 3)) =>
     generatedFor(cfg) = Rejected

\* C22: a drawn bond whose ends do not have exactly two rings in common does
\* not end the step with an exception at once: the draw is made again, and
\* the exception is raised only when the attempts are used up.
C22_CommonCountRetried ==
  (last.pick.res = "debugThrow" /\ last.outcome = "threw") => last.exhausted

(* ------------------- uniqueness of associated nodes -------------------- *)
\* The candidates of findAssociatedNodeAB before its fallbacks: the atoms
\* bonded to idA that lie on ring idB, without idDel.
candidatesAB(A, idA, B, idB, idDel) ==
  delValue(vCommonValues(A[idA].netCnxs, B[idB].dualCnxs), idDel)

\* The four findAssociatedNodeAB queries of a 33 switch on (a, b, u, v).
queriesAB(p) ==
  {<<p.a, p.u, p.b>>, <<p.b, p.u, p.a>>, <<p.a, p.v, p.b>>, <<p.b, p.v, p.a>>}

Switch33Generated ==
  /\ HandedToGenerator /\ last.kind # "monteCarloMixMove"
  /\ last.pick.cnxType = 33
  /\ last.pick.a # last.pick.b /\ last.pick.u # last.pick.v

\* The candidates of findAssociatedNodeAA before its fallbacks: the rings
\* that atoms idA and idB share, without idDel.
candidatesAA(A, idA, idB, idDel) ==
  delValue(vCommonValues(A[idA].dualCnxs, A[idB].dualCnxs), idDel)

\* The findAssociatedNodeAA queries of a 33 switch for w and x, made once
\* c, d, e and f are found; none is made when one of the four is missing.
queriesAA(A, B, p) ==
  LET c == findAssociatedNodeAB(A, B, p.a, p.u, p.b)
      d == findAssociatedNodeAB(A, B, p.b, p.u, p.a)
      e == findAssociatedNodeAB(A, B, p.a, p.v, p.b)
      f == findAssociatedNodeAB(A, B, p.b, p.v, p.a)
  IN IF \E n \in {c, d, e, f} : n < 0 THEN {}
     ELSE {<<p.a, c, p.u>>, <<p.b, d, p.u>>}

\* C23: findAssociatedNodeAB and findAssociatedNodeAA return a node only when
\* exactly one candidate is left after the excluded node is removed; with any
\* other number of candidates the query ends in an error (for
\* findAssociatedNodeAB the exit, for findAssociatedNodeAA no such outcome
\* exists: it hands a node or -1 back to its caller).
C23_UniqueOrFails ==
  Switch33Generated =>
    /\ \A q \in queriesAB(last.pick) :
          Len(candidatesAB(pre.S.A, q[1], pre.S.B, q[2], q[3])) # 1 =>
             findAssociatedNodeAB(pre.S.A, pre.S.B, q[1], q[2], q[3]) = 0 - 1
    /\ \A q \in queriesAA(pre.S.A, pre.S.B, last.pick) :
          Len(candidatesAA(pre.S.A, q[1], q[2], q[3])) = 1

(* --------------- candidate counts of the 4-4 and 4-3 switch ------------- *)
\* The candidate lists of c, d, e and f, common to the 4-4 and 4-3 branches.
flankLists(A, B, p) ==
  <<delValue(vCommonValues(A[p.a].netCnxs, B[p.u].dualCnxs), p.b),
    delValue(vCommonValues(A[p.b].netCnxs, B[p.u].dualCnxs), p.a),
    delValue(vCommonValues(A[p.a].netCnxs, B[p.v].dualCnxs), p.b),
    delValue(vCommonValues(A[p.b].netCnxs, B[p.v].dualCnxs), p.a)>>

\* The candidate lists of the rings w, x, y (and z for 4-4) and of the atoms
\* g (and h for 4-4), read with c, d, e, f the first candidates.
ringLists(A, p, c, d, e, f) ==
  {delValue(vCommonValues(A[p.a].dualCnxs, A[e].dualCnxs), p.v),
   delValue(vCommonValues(A[p.b].dualCnxs, A[d].dualCnxs), p.u),
   delValue(vCommonValues(A[p.a].dualCnxs, A[c].dualCnxs), p.u),
   delValue(vCommonValues(A[p.b].dualCnxs, A[f].dualCnxs), p.v),
   delValue(delValue(delValue(A[p.a].netCnxs, p.b), c), e)}
  \cup (IF p.cnxType = 44
          THEN {delValue(delValue(delValue(A[p.b].netCnxs, p.a), d), f)}
        ELSE {})

\* Every candidate list the branch takes an element from; the ring lists
\* are reached only when c, d, e and f could be read.
candidateLists(A, B, p) ==
  LET fl == flankLists(A, B, p)
  IN {fl[i] : i \in 1..4}
     \cup (IF \E i \in 1..4 : fl[i] = <<>> THEN {}
           ELSE ringLists(A, p, fl[1][1], fl[2][1], fl[3][1], fl[4][1]))

Switch4Generated ==
  /\ HandedToGenerator /\ last.kind # "monteCarloMixMove"
  /\ last.pick.cnxType \in {44, 43}
  /\ last.pick.a # last.pick.b /\ last.pick.u # last.pick.v

wrongCount == \E s \in candidateLists(pre.S.A, pre.S.B, last.pick) : Len(s) # 1

\* C24: when a candidate list of a 4-4 or 4-3 switch does not hold exactly
\* one node, the generator neither returns false as for a refused move nor
\* produces a descriptor, and takes no element from an empty list.
C24_WrongCountIsFatal ==
  (Switch4Generated /\ wrongCount) =>
     generatedFor(cfg).res \notin {"reject", "ok", "undefined"}

(* ------------------------ neighbours share a ring ----------------------- *)
\* Every node of N has a dualCnxs entry in common with each of its netCnxs.
neighboursShareDual(N) ==
  \A i \in DOMAIN N :
     \A k \in DOMAIN N[i].netCnxs :
        vCommonValues(N[i].dualCnxs, N[N[i].netCnxs[k]].dualCnxs) # <<>>

\* C25: after every completed step, two bonded atoms of A have at least one
\* ring in common in their dualCnxs, and two adjacent rings of B at least one
\* atom.
C25_NeighbourRingAdjacency ==
  Completed => (neighboursShareDual(nodesA) /\ neighboursShareDual(nodesB))

C25_Witness ==
  /\ steps = 2 /\ MoveKept /\ last.accepted /\ last.cnxType \in {44, 43}
  /\ pre.S.A # Lattices[cfg.lattice].A
  /\ neighboursShareDual(nodesA) /\ neighboursShareDual(nodesB)

(* --------------- the evaluation of a move in a LAMMPS step -------------- *)
\* The force-field objects a step minimises besides SimpleGraphene, each
\* with its flag isTriangleRaftEnabled, isTersoffGrapheneEnabled,
\* isBilayerEnabled, isBNEnabled.
Evaluators == {"Triangle_Raft", "TersoffGraphene", "Bilayer", "BN"}

\* Steps of a run whose evaluation is followed thread by thread.
MaxEvaluated == 1

\* The settings of the four flags a run is started with.
EnabledSets ==
  {{}, {"Triangle_Raft", "TersoffGraphene", "Bilayer"}, {"TersoffGraphene", "BN"},
   Evaluators}

\* omp parallel num_threads(3)
Threads == 0 .. 2

\* The object a thread of the region minimises: the branch of its thread
\* number, taken when the object's flag is set.
minimisedBy(t, enabled) ==
  (IF t = 0 THEN {"Triangle_Raft"}
   ELSE IF t = 1 THEN {"TersoffGraphene"} ELSE {"Bilayer"}) \cap enabled

\* What a thread of the region assigns: the object it minimises and the
\* optStatus vector of that object.
regionWrites(t, enabled) ==
  UNION {{e, "optStatus_" \o e} : e \in minimisedBy(t, enabled)}

\* The objects the serial path minimises: the spiral step calls
\* BN.globalPotentialEnergy() where the other calls the minimisation.
serialMinimised(kind, enabled) ==
  IF kind = "SpiralmonteCarloSwitchMoveLAMMPS" THEN enabled \ {"BN"}
  ELSE enabled

\* The step has applied the move T.M and is about to evaluate it.
Evaluating(T, openMP, enabled) ==
  [pc |-> "moved", T |-> T, M |-> T.M, isOpenMPIEnabled |-> openMP,
   enabled |-> enabled,
   thread |-> [t \in Threads |-> "ready"],
   written |-> [t \in Threads |-> {}],
   minimised |-> [e \in Evaluators |-> 0],
   localGeometryOptimisation |-> 0]

\* A region that is left without waiting for its threads.
barrierNowait(ev) == TRUE

\* The implicit barrier that ends the parallel region.
barrier(ev) == \A t \in Threads : ev.thread[t] = "done"

EvaluatingInit ==
  /\ Init
  /\ cfg = LinkedNetwork("Hex12", 2, 4, 5, 7, FALSE, 1)

\* The step function up to the geometry checks: the selecting loop found a
\* descriptor, the snapshot is taken, the move is applied to the networks
\* and the two checkThreeRingEdges hold, so that the move is evaluated.
BeginFrom(T) ==
  /\ ~T.stopped /\ ~T.M.err /\ threeRingEdges(T.M, T.p)
  /\ \E openMP \in BOOLEAN, enabled \in EnabledSets :
        evaluation' = Evaluating(T, openMP, enabled)
  /\ UNCHANGED <<nodesA, nodesB, nodeDistA, nodeDistB, edgeDistA, edgeDistB,
                 crds, cfg, steps, pre, last>>

Begin ==
  /\ Running /\ steps < MaxEvaluated /\ evaluation.pc = "idle"
  /\ \E node0 \in Picks, dir \in 0 .. 1 :
       \E cnx \in DOMAIN nodesA[node0].netCnxs :
          \/ BeginFrom(switchSelect("monteCarloSwitchMoveLAMMPS",
                                    pickRandomCnx34(nodesA, nodesB, cfg.fixedRings,
                                                    node0, cnx, dir),
                                    "threw"))
          \/ BeginFrom(switchSelect("SpiralmonteCarloSwitchMoveLAMMPS",
                                    pickSpiralCnx34(nodesA, node0, cnx, dir),
                                    "returned"))

Evaluate(ev) ==
  /\ evaluation' = ev
  /\ UNCHANGED <<nodesA, nodesB, nodeDistA, nodeDistB, edgeDistA, edgeDistB,
                 crds, cfg, steps, pre, last>>

\* isOpenMPIEnabled: localGeometryOptimisation, then the region is entered.
EnterRegion ==
  /\ evaluation.pc = "moved" /\ evaluation.isOpenMPIEnabled
  /\ Evaluate([evaluation EXCEPT
                 !.pc = "region",
                 !.localGeometryOptimisation = @ + 1])

\* A thread of the region starts on the branch of its thread number.
ThreadStart(t) ==
  /\ evaluation.pc = "region" /\ evaluation.thread[t] = "ready"
  /\ Evaluate([evaluation EXCEPT !.thread[t] = "running"])

\* The thread's GlobalPotentialMinimisation returns and optStatus is assigned.
ThreadFinish(t) ==
  /\ evaluation.pc # "idle" /\ evaluation.thread[t] = "running"
  /\ Evaluate([evaluation EXCEPT
                 !.thread[t] = "done",
                 !.written[t] = @ \cup regionWrites(t, evaluation.enabled),
                 !.minimised =
                    [e \in Evaluators |->
                       IF e \in minimisedBy(t, evaluation.enabled)
                         THEN @[e] + 1 ELSE @[e]]])

LeaveRegion ==
  /\ evaluation.pc = "region" /\ barrier(evaluation)
  /\ Evaluate([evaluation EXCEPT !.pc = "evaluated"])

\* The serial path: the minimisations one after another, then
\* localGeometryOptimisation.
Serial ==
  /\ evaluation.pc = "moved" /\ ~evaluation.isOpenMPIEnabled
  /\ Evaluate([evaluation EXCEPT
                 !.pc = "evaluated",
                 !.minimised =
                    [e \in Evaluators |->
                       IF e \in serialMinimised(evaluation.T.kind,
                                                evaluation.enabled)
                         THEN @[e] + 1 ELSE @[e]],
                 !.localGeometryOptimisation = @ + 1])

\* The rest of the step: energies, Metropolis test, then keep or restore.
Decide ==
  /\ evaluation.pc = "evaluated"
  /\ \E convex \in BOOLEAN, energy \in Energies, rnd \in BOOLEAN :
        Step(IF evaluation.T.kind = "monteCarloSwitchMoveLAMMPS"
               THEN monteCarloSwitchMoveLAMMPS(evaluation.T, convex, energy, rnd)
             ELSE SpiralmonteCarloSwitchMoveLAMMPS(evaluation.T, convex, energy, rnd))
  /\ evaluation' = NotEvaluating

EvaluatingNext ==
  \/ Begin
  \/ EnterRegion
  \/ \E t \in Threads : ThreadStart(t)
  \/ \E t \in Threads : ThreadFinish(t)
  \/ LeaveRegion
  \/ Serial
  \/ Decide

SpecEvaluating == EvaluatingInit /\ [][EvaluatingNext]_vars

\* The variables of the three networks.
NetworkVariables == {"networkA", "networkB", "networkT"}

InRegion == evaluation.pc = "region"

\* C26: the threads of the parallel region write neither the networks nor a
\* variable another thread writes, the networks hold the moved topology from
\* before the region starts, and no thread is still running once the region
\* is left and the step goes on to keep or restore the move.
C26_NoConcurrentMutation ==
  evaluation.pc # "idle" =>
    /\ evaluation.M = evaluation.T.M
    /\ \A t \in Threads :
          /\ evaluation.written[t] \cap NetworkVariables = {}
          /\ \A s \in Threads \ {t} :
                evaluation.written[t] \cap evaluation.written[s] = {}
          /\ evaluation.thread[t] = "running" => InRegion

C26_Witness ==
  /\ InRegion
  /\ evaluation.enabled = Evaluators
  /\ evaluation.thread = (0 :> "done" @@ 1 :> "running" @@ 2 :> "done")
  /\ evaluation.M # Current

EvaluationOver == evaluation.pc = "evaluated"

\* C30: when the evaluation of a move is over, on the OpenMP path as on the
\* serial path, localGeometryOptimisation has run exactly once and every
\* enabled force-field object has been minimised exactly once, so that the
\* two paths leave the same objects minimised.
C30_PathsDoSameWork ==
  EvaluationOver =>
    /\ evaluation.localGeometryOptimisation = 1
    /\ \A e \in evaluation.enabled : evaluation.minimised[e] = 1

(* ------------------- what a step hands back to its caller --------------- *)
\* The run counters of the LinkedNetwork: a step function returns the status
\* vector (accepted, optimisation code, iterations) and assigns no counter,
\* so each holds the value it had before the first step.
runCounters ==
  [attempts |-> 0, accepted |-> 0, failedEnergy |-> 0, failedBondLength |-> 0,
   failedAngle |-> 0]

\* C27: after every step, whatever its outcome, the run counters are up to
\* date: the attempts counter counts the steps made, and a step that ended
\* accepted or rejected is counted in the accepted counter or in one of the
\* rejection counters.
C27_RunCounters ==
  steps > 0 =>
    /\ runCounters.attempts = steps
    /\ Completed /\ last.found =>
         (runCounters.accepted + runCounters.failedEnergy
            + runCounters.failedBondLength + runCounters.failedAngle) > 0

\* The energy in the caller's variable when the step function returns, for
\* a step that evaluated the energy l.energy: "saved" is the energy the
\* caller passed in.  monteCarloSwitchMove and monteCarloMixMove assign
\* saveEnergy in the branch of isAccepted; the LAMMPS steps in the other.
energyAtReturn(l) ==
  IF l.kind \in {"monteCarloSwitchMove", "monteCarloMixMove"}
    THEN IF l.accepted THEN "saved" ELSE l.energy
  ELSE IF l.accepted THEN l.energy ELSE "saved"

\* C29: when a step that applied a move returns, the caller's energy is the
\* newly evaluated energy if the move was accepted and the energy from before
\* the step if it was rejected, and never the infinite energy.
C29_EnergyFollowsOutcome ==
  (Completed /\ last.found) =>
     /\ energyAtReturn(last) = (IF last.accepted THEN last.energy ELSE "saved")
     /\ energyAtReturn(last) # "infinite"

(* ------------------------- checkCnxConsistency -------------------------- *)
\* The node and the entry of the last pass of a double loop over the nodes
\* of N and the entries of their list fld; <<>> when the lists are empty.
lastExamined(N, fld) ==
  LET filled == {i \in DOMAIN N : N[i][fld] # <<>>}
  IN IF filled = {} THEN <<>>
     ELSE LET id0 == CHOOSE i \in filled : \A k \in filled : k <= i
          IN <<id0, N[id0][fld][Len(N[id0][fld])]>>

\* The flag a pair of loops, over A and then over B, leaves: each pass
\* assigns the flag, so it holds the result of the last pass.  In the pass
\* for the pair (id0, id1), id0 is looked up in the list fld of node id1 of
\* the network given for that loop.
lastPass(A, B, fld, inA, inB) ==
  LET pA == lastExamined(A, fld)
      pB == lastExamined(B, fld)
  IN IF pB # <<>> THEN vContains(inB[pB[2]][fld], pB[1])
     ELSE IF pA # <<>> THEN vContains(inA[pA[2]][fld], pA[1])
     ELSE TRUE

\* Neighbours that follow each other in netCnxs lie on a common ring.
nbNetCnx(N) ==
  \A i \in DOMAIN N :
     \A j \in DOMAIN N[i].netCnxs :
        vCommonValues(N[N[i].netCnxs[j]].dualCnxs,
                      N[N[i].netCnxs[Next1(N[i].netCnxs, j)]].dualCnxs) # <<>>

\* Dual nodes that follow each other in dualCnxs of a node of N have a
\* node of N in common besides that node.
nbDualCnx(N, O) ==
  \A i \in DOMAIN N :
     \A j \in DOMAIN N[i].dualCnxs :
        delValue(vCommonValues(O[N[i].dualCnxs[j]].dualCnxs,
                               O[N[i].dualCnxs[Next1(N[i].dualCnxs, j)]].dualCnxs),
                 i) # <<>>

\* numAux and mutualAuxCnx are set to true after their loops.
checkCnxConsistency(A, B) ==
  /\ netDualEquality(A) /\ netDualEquality(B)
  /\ lastPass(A, B, "netCnxs", A, B)
  /\ lastPass(A, B, "dualCnxs", B, A)
  /\ nbNetCnx(A) /\ nbNetCnx(B)
  /\ nbDualCnx(A, B) /\ nbDualCnx(B, A)

\* The networks the check is called on: the small hexagonal lattice as it
\* is, or with one netCnxs or dualCnxs entry of one node of A, or one netCnxs
\* entry of one node of B, naming another node.  Every node has at least
\* three entries; one of the first three is changed.
oneEntryChanged(N, fld, ids) ==
  {[N EXCEPT ![i][fld][k] = id] :
     i \in DOMAIN N, k \in 1 .. 3, id \in ids}

CheckingInit ==
  /\ cfg = LinkedNetwork("Hex5", 3, 3, 5, 7, FALSE, 1)
  /\ \/ /\ nodesA \in oneEntryChanged(Hex5A, "netCnxs", DOMAIN Hex5A)
                        \cup oneEntryChanged(Hex5A, "dualCnxs", DOMAIN Hex5B)
        /\ nodesB = Hex5B
     \/ /\ nodesA = Hex5A
        /\ nodesB \in oneEntryChanged(Hex5B, "netCnxs", DOMAIN Hex5B)
  /\ nodeDistA = checkNode(nodesA)
  /\ nodeDistB = checkNode(nodesB)
  /\ edgeDistA = checkEdge(nodesA)
  /\ edgeDistB = checkEdge(nodesB)
  /\ crds = 0
  /\ steps = 0
  /\ pre = [S |-> Current, crds |-> 0]
  /\ evaluation = NotEvaluating
  /\ last = Ended("none", "returned", FALSE, FALSE, Current, crds, 0, Rejected,
                  FALSE, "none").last

\* checkConsistency: the product of checkCnxConsistency and
\* checkDescriptorConsistency.
checkConsistency ==
  /\ steps = 0
  /\ steps' = 1
  /\ last' = [last EXCEPT
                !.kind = "checkConsistency",
                !.outcome = IF /\ checkCnxConsistency(nodesA, nodesB)
                               /\ consistentDescriptors(Current)
                              THEN "true" ELSE "false"]
  /\ UNCHANGED <<nodesA, nodesB, nodeDistA, nodeDistB, edgeDistA, edgeDistB,
                 crds, cfg, pre, evaluation>>

CheckingNext == checkConsistency

SpecChecking == CheckingInit /\ [][CheckingNext]_vars

\* C28: checkCnxConsistency, and therefore checkConsistency, returns true
\* only if every netCnxs entry of every node of A and of B is reciprocated
\* and every dualCnxs entry between A and B is reciprocated.
C28_DetectsEveryBrokenLink ==
  (last.kind = "checkConsistency" /\ last.outcome = "true") =>
     /\ mutualNetCnx(nodesA) /\ mutualNetCnx(nodesB)
     /\ mutualDualCnx(nodesA, nodesB)

(* --------------------- orientation of a 4-3 edge ----------------------- *)
\* The last step drew an edge with pickRandomCnx34 or pickDiscreteCnx34.
Drawn34 == steps > 0 /\ last.kind \in RandomSwitchKinds /\ last.pick.res # "none"

\* Both ends of the drawn edge were 3- or 4-coordinate before the step.
coordinations34(p) ==
  Deg(pre.S.A, p.a) \in {3, 4} /\ Deg(pre.S.A, p.b) \in {3, 4}

\* C31: an edge drawn between a 3- and a 4-coordinate node is returned as
\* type 43 with a the 4-coordinate and b the 3-coordinate node, whichever
\* end was drawn first, so switchCnx43 gets a of degree 4 and b of degree 3;
\* an edge with an end of another coordination makes the picker throw and
\* the networks stay as they were.
C31_Orientation43 ==
  Drawn34 =>
    /\ last.pick.cnxType = 43 =>
          Deg(pre.S.A, last.pick.a) = 4 /\ Deg(pre.S.A, last.pick.b) = 3
    /\ (coordinations34(last.pick)
          /\ Deg(pre.S.A, last.pick.a) # Deg(pre.S.A, last.pick.b)) =>
          last.pick.cnxType = 43
    /\ (last.found /\ last.cnxType = 43) =>
          Deg(pre.S.A, last.idsA[1]) = 4 /\ Deg(pre.S.A, last.idsA[2]) = 3
    /\ ~coordinations34(last.pick) =>
          last.pick.res = "throw" /\ last.outcome = "threw" /\ AsBefore

\* A 4-3 switch was applied to an edge of the weighted picker.
C31_Witness ==
  /\ Drawn34 /\ cfg.MCWeighting = "weighted"
  /\ last.found /\ last.cnxType = 43
  /\ Deg(pre.S.A, last.pick.a) = 4 /\ Deg(pre.S.A, last.pick.b) = 3

\* The picker threw on an edge with an end that is neither 3- nor
\* 4-coordinate.
C31_WitnessThrow ==
  Drawn34 /\ ~coordinations34(last.pick) /\ last.pick.res = "throw"

(* ------------------------- InputData::validate ------------------------- *)
\* An input file as the read functions leave it in InputData.
InputData(minRing, simpleGraphene, triangleRaft, bilayer, tersoffGraphene, bn, protocol) ==
  [numRings |-> 12, minRingSize |-> minRing, maxRingSize |-> 7,
   minCoordination |-> 3, maxCoordination |-> 4, isFixRingsEnabled |-> FALSE,
   isSimpleGrapheneEnabled |-> simpleGraphene,
   isTriangleRaftEnabled |-> triangleRaft,
   isBilayerEnabled |-> bilayer,
   isTersoffGrapheneEnabled |-> tersoffGraphene,
   isBNEnabled |-> bn,
   selectedMinimisationProtocol |-> protocol,
   moveType |-> "switch", randomSeed |-> 0, isSpiralEnabled |-> FALSE,
   randomOrWeighted |-> "random",
   harmonicBondForceConstant |-> 1, harmonicAngleForceConstant |-> 1,
   harmonicGeometryConstraint |-> 1,
   monteCarloLocalMaxIterations |-> 1, globalMinimisationMaxIterations |-> 1,
   analysisWriteFrequency |-> 1, ljPairsCalculationDistance |-> 1]

\* The flag and the name protocolMap holds for each protocol number.
protocolMap ==
  1 :> [isEnabled |-> "isSimpleGrapheneEnabled", protocolName |-> "Simple Graphene"] @@
  2 :> [isEnabled |-> "isTriangleRaftEnabled", protocolName |-> "Triangle Raft"] @@
  3 :> [isEnabled |-> "isTriangleRaftEnabled", protocolName |-> "Bilayer"] @@
  4 :> [isEnabled |-> "isTersoffGrapheneEnabled", protocolName |-> "Tersoff Graphene"] @@
  5 :> [isEnabled |-> "isBNEnabled", protocolName |-> "BN"]

checkInRange(value, lower, upper) == lower <= value /\ value <= upper

Thrown(message, name) == [accepted |-> FALSE, message |-> message, name |-> name]

\* validate: the first check that fails throws; INT_MAX and the largest
\* double are above every value of the files read here.
validate(in) ==
  LET IntMax == 2147483647
  IN IF ~checkInRange(in.numRings, 1, IntMax) THEN Thrown("numRings", "")
     ELSE IF ~checkInRange(in.minRingSize, 3, IntMax) THEN Thrown("minRingSize", "")
     ELSE IF ~checkInRange(in.maxRingSize, in.minRingSize, IntMax)
       THEN Thrown("maxRingSize", "")
     ELSE IF ~checkInRange(in.minCoordination, 1, IntMax)
       THEN Thrown("minCoordination", "")
     ELSE IF ~checkInRange(in.maxCoordination, in.minCoordination, IntMax)
       THEN Thrown("maxCoordination", "")
     ELSE IF in.selectedMinimisationProtocol \notin DOMAIN protocolMap
       THEN Thrown("out of range", "")
     ELSE IF ~in[protocolMap[in.selectedMinimisationProtocol].isEnabled]
       THEN Thrown("disabled",
                   protocolMap[in.selectedMinimisationProtocol].protocolName)
     ELSE IF in.moveType \notin {"switch", "mix"} THEN Thrown("moveType", "")
     ELSE IF ~checkInRange(in.randomSeed, 0, IntMax) THEN Thrown("randomSeed", "")
     ELSE IF in.randomOrWeighted \notin {"random", "weighted"}
       THEN Thrown("randomOrWeighted", "")
     ELSE IF ~checkInRange(in.harmonicBondForceConstant, 0, IntMax)
       THEN Thrown("harmonicBondForceConstant", "")
     ELSE IF ~checkInRange(in.harmonicAngleForceConstant, 0, IntMax)
       THEN Thrown("harmonicAngleForceConstant", "")
     ELSE IF ~checkInRange(in.harmonicGeometryConstraint, 0, IntMax)
       THEN Thrown("harmonicGeometryConstraint", "")
     ELSE IF ~checkInRange(in.monteCarloLocalMaxIterations, 0, IntMax)
       THEN Thrown("monteCarloLocalMaxIterations", "")
     ELSE IF ~checkInRange(in.globalMinimisationMaxIterations, 0, IntMax)
       THEN Thrown("globalMinimisationMaxIterations", "")
     ELSE IF ~checkInRange(in.analysisWriteFrequency, 0, 1000)
       THEN Thrown("analysisWriteFrequency", "")
     ELSE IF ~checkInRange(in.ljPairsCalculationDistance, 0, IntMax)
       THEN Thrown("ljPairsCalculationDistance", "")
     ELSE [accepted |-> TRUE, message |-> "", name |-> ""]

\* The input files: every setting of the five enable flags, a protocol
\* number from 0 to 6, and a smallest ring size of 2 or 3.  No network is
\* loaded yet when the input is validated.
ValidatingInit ==
  /\ cfg \in {InputData(minRing, sg, tr, bl, tg, bn, protocol) :
                minRing \in 2 .. 3, sg \in BOOLEAN, tr \in BOOLEAN,
                bl \in BOOLEAN, tg \in BOOLEAN, bn \in BOOLEAN,
                protocol \in 0 .. 6}
  /\ nodesA = <<>> /\ nodesB = <<>>
  /\ nodeDistA = checkNode(nodesA)
  /\ nodeDistB = checkNode(nodesB)
  /\ edgeDistA = checkEdge(nodesA)
  /\ edgeDistB = checkEdge(nodesB)
  /\ crds = 0
  /\ steps = 0
  /\ pre = [S |-> Current, crds |-> 0]
  /\ evaluation = NotEvaluating
  /\ last = [kind |-> "none", outcome |-> "none", message |-> "", name |-> ""]

Validate ==
  /\ steps = 0
  /\ steps' = 1
  /\ last' = [kind |-> "validate",
              outcome |-> IF validate(cfg).accepted THEN "accepted" ELSE "threw",
              message |-> validate(cfg).message,
              name |-> validate(cfg).name]
  /\ UNCHANGED <<nodesA, nodesB, nodeDistA, nodeDistB, edgeDistA, edgeDistB,
                 crds, cfg, pre, evaluation>>

ValidatingNext == Validate

SpecValidating == ValidatingInit /\ [][ValidatingNext]_vars

\* The enable flag that belongs to each protocol, and its name.
ownFlag(in, protocol) ==
  CASE protocol = 1 -> in.isSimpleGrapheneEnabled
    [] protocol = 2 -> in.isTriangleRaftEnabled
    [] protocol = 3 -> in.isBilayerEnabled
    [] protocol = 4 -> in.isTersoffGrapheneEnabled
    [] protocol = 5 -> in.isBNEnabled

ownName(protocol) ==
  CASE protocol = 1 -> "Simple Graphene"
    [] protocol = 2 -> "Triangle Raft"
    [] protocol = 3 -> "Bilayer"
    [] protocol = 4 -> "Tersoff Graphene"
    [] protocol = 5 -> "BN"

\* C32: validate accepts an input only if the selected protocol number is
\* in 1..5 and the protocol it names has its own enable flag set; with the
\* network properties valid, a protocol whose own flag is false is refused
\* with an error naming it, and a number outside 1..5 is refused as out of
\* range.
C32_ProtocolValidation ==
  last.kind = "validate" =>
    LET protocol == cfg.selectedMinimisationProtocol
    IN /\ last.outcome = "accepted" =>
             protocol \in 1 .. 5 /\ ownFlag(cfg, protocol)
       /\ cfg.minRingSize >= 3 =>
             /\ (protocol \in 1 .. 5 /\ ~ownFlag(cfg, protocol)) =>
                   /\ last.outcome = "threw" /\ last.message = "disabled"
                   /\ last.name = ownName(protocol)
             /\ protocol \notin 1 .. 5 =>
                   last.outcome = "threw" /\ last.message = "out of range"

(* ---------------------- limits after construction ---------------------- *)
\* The arguments the constructor is called with: a lattice to load and the
\* limits of the input file, narrower or wider than the lattice.
Requested ==
  [lattice : DOMAIN Lattices,
   minCoordination : 2 .. 4, maxCoordination : 3 .. 5,
   minRingSize : 3 .. 6, maxRingSize : 5 .. 7]

\* Before the constructor has run there is no network; cfg holds the
\* arguments.
LoadingInit ==
  /\ cfg \in {r \in Requested : /\ r.minCoordination <= r.maxCoordination
                                /\ r.minRingSize <= r.maxRingSize}
  /\ nodesA = <<>> /\ nodesB = <<>>
  /\ nodeDistA = checkNode(nodesA)
  /\ nodeDistB = checkNode(nodesB)
  /\ edgeDistA = checkEdge(nodesA)
  /\ edgeDistB = checkEdge(nodesB)
  /\ crds = 0
  /\ steps = 0
  /\ pre = [S |-> Current, crds |-> 0]
  /\ evaluation = NotEvaluating
  /\ last = [kind |-> "none", outcome |-> "none"]

\* The constructor: loads the two networks and sets the four limits.
Construct ==
  /\ steps = 0
  /\ steps' = 1
  /\ cfg' = LinkedNetwork(cfg.lattice, cfg.minCoordination, cfg.maxCoordination,
                          cfg.minRingSize, cfg.maxRingSize, FALSE, 1)
  /\ nodesA' = Lattices[cfg.lattice].A
  /\ nodesB' = Lattices[cfg.lattice].B
  /\ nodeDistA' = checkNode(Lattices[cfg.lattice].A)
  /\ nodeDistB' = checkNode(Lattices[cfg.lattice].B)
  /\ edgeDistA' = checkEdge(Lattices[cfg.lattice].A)
  /\ edgeDistB' = checkEdge(Lattices[cfg.lattice].B)
  /\ last' = [kind |-> "LinkedNetwork", outcome |-> "returned", requested |-> cfg]
  /\ UNCHANGED <<crds, pre, evaluation>>

LoadingNext == Construct

SpecLoading == LoadingInit /\ [][LoadingNext]_vars

Constructed == last.kind = "LinkedNetwork"

\* C33: after construction, for any requested limits, every A node has a
\* degree between minACnxs and maxACnxs and every B node one between
\* minBCnxs and maxBCnxs; a requested limit narrower than the loaded network
\* is not taken, the limit stays at the network's own extreme.
C33_LoadedWithinLimits ==
  Constructed =>
    /\ withinLimits(nodesA, nodesB, cfg)
    /\ last.requested.minCoordination > getMinCnxs(nodesA) =>
          cfg.minACnxs = getMinCnxs(nodesA)
    /\ last.requested.maxCoordination < getMaxCnxs(nodesA) =>
          cfg.maxACnxs = getMaxCnxs(nodesA)
    /\ last.requested.minRingSize > getMinCnxs(nodesB) =>
          cfg.minBCnxs = getMinCnxs(nodesB)
    /\ last.requested.maxRingSize < getMaxCnxs(nodesB) =>
          cfg.maxBCnxs = getMaxCnxs(nodesB)

\* The square lattice with a six-sided ring, loaded with a request for rings
\* of at most five sides and nodes of at least four bonds.
C33_Witness ==
  /\ Constructed /\ cfg.lattice = "Sq44"
  /\ last.requested.maxRingSize = 5 /\ cfg.maxBCnxs = 6
  /\ last.requested.minCoordination = 4 /\ cfg.minACnxs = 3

(* ------------------------- conserved counts ---------------------------- *)
RECURSIVE sumOver(_, _)
\* The sum of f over the set ids of its arguments.
sumOver(f, ids) ==
  IF ids = {} THEN 0
  ELSE LET id == CHOOSE i \in ids : TRUE
       IN f[id] + sumOver(f, ids \ {id})

\* The sum of the netCnxs lengths of a network.
totalCnxs(N) == sumOver([id \in DOMAIN N |-> Deg(N, id)], DOMAIN N)

\* C34: whatever moves were applied, committed or reverted, the number of
\* nodes of A and of B does not change, the sum of the netCnxs lengths of A
\* and that of B are what they were at construction, and the entries of each
\* nodeDistribution sum to the number of nodes of the network.
C34_CountsConserved ==
  /\ DOMAIN nodesA = DOMAIN Lattices[cfg.lattice].A
  /\ DOMAIN nodesB = DOMAIN Lattices[cfg.lattice].B
  /\ totalCnxs(nodesA) = totalCnxs(Lattices[cfg.lattice].A)
  /\ totalCnxs(nodesB) = totalCnxs(Lattices[cfg.lattice].B)
  /\ sumOver(nodeDistA, Degrees) = Cardinality(DOMAIN nodesA)
  /\ sumOver(nodeDistB, Degrees) = Cardinality(DOMAIN nodesB)


(* -------------------- mix from a 2-coordinate node --------------------- *)
\* Mix moves on the hexagonal lattice with a smallest coordination of 1 in
\* the input file, so that the lower limit of A does not stop a mix from a
\* 2-coordinate node.
MixingInit ==
  /\ cfg = LinkedNetwork("Hex12", 1, 4, 5, 7, FALSE, 1)
  /\ nodesA = Lattices[cfg.lattice].A
  /\ nodesB = Lattices[cfg.lattice].B
  /\ nodeDistA = checkNode(nodesA)
  /\ nodeDistB = checkNode(nodesB)
  /\ edgeDistA = checkEdge(nodesA)
  /\ edgeDistB = checkEdge(nodesB)
  /\ crds = 0
  /\ steps = 0
  /\ pre = [S |-> Current, crds |-> 0]
  /\ evaluation = NotEvaluating
  /\ last = Ended("none", "returned", FALSE, FALSE, Current, crds, 0, Rejected,
                  FALSE, "none").last

MixingNext == StepMix

SpecMixing == MixingInit /\ [][MixingNext]_vars

\* pickRandomCnx of the last step returned an edge whose first node a was
\* 2-coordinate.
MixFrom2 ==
  /\ steps > 0 /\ last.kind = "monteCarloMixMove" /\ last.pick.res = "ok"
  /\ Deg(pre.S.A, last.pick.a) = 2
  /\ last.pick.cnxType = 10 * Deg(pre.S.A, last.pick.a) + Deg(pre.S.A, last.pick.b)

\* C36: generateMixIds generates no mix move when the first selected node a
\* is 2-coordinate, for the connection types pickRandomCnx produces.
C36_NoMixFrom2 ==
  MixFrom2 =>
    generateMixIds(pre.S.A, pre.S.B, cfg, last.pick.cnxType, last.pick.a,
                   last.pick.b, last.pick.u, last.pick.v).res # "ok"

(* ----------------------- the move finder's frame ----------------------- *)
\* The last step ended while it selected: its picker or its generator
\* threw, exited, read an unassigned value, or rejected every draw, so no
\* move was applied.
EndedInFinder == steps > 0 /\ ~last.found

\* C35: the edge pickers, the descriptor generators and the common-neighbour
\* queries leave the connection lists and the coordinates of every node and
\* the distribution tables of A and B as they were, whether they succeed,
\* reject or take an error path, and a rejected generation leaves the
\* descriptor arrays of the caller as they were.
C35_FinderReadOnly ==
  EndedInFinder =>
    /\ Current = pre.S
    /\ crds = pre.crds
    /\ last.idsA = <<>> /\ last.idsB = <<>>

MaxLen == 3
MaxValue == 2

Vectors == UNION {[1 .. n -> 0 .. MaxValue] : n \in 0 .. MaxLen}

\* Two vectors handed to the vector tools; no network is involved.
VectorsInit ==
  /\ cfg \in [vector1 : Vectors, vector2 : Vectors]
  /\ nodesA = <<>> /\ nodesB = <<>>
  /\ nodeDistA = checkNode(nodesA)
  /\ nodeDistB = checkNode(nodesB)
  /\ edgeDistA = checkEdge(nodesA)
  /\ edgeDistB = checkEdge(nodesB)
  /\ crds = 0
  /\ steps = 0
  /\ pre = [S |-> Current, crds |-> 0]
  /\ evaluation = NotEvaluating
  /\ last = [kind |-> "none", result |-> <<>>, again |-> <<>>]

\* A call of a vector tool; again is the tool applied to its own result.
Applied(kind, result, again) ==
  /\ steps = 0
  /\ steps' = 1
  /\ last' = [kind |-> kind, result |-> result, again |-> again]
  /\ UNCHANGED <<nodesA, nodesB, nodeDistA, nodeDistB, edgeDistA, edgeDistB,
                 crds, cfg, pre, evaluation>>

Intersect ==
  Applied("intersectVectors", intersectVectors(cfg.vector1, cfg.vector2),
          intersectVectors(intersectVectors(cfg.vector1, cfg.vector2), cfg.vector2))

Unique ==
  Applied("getUniqueValues", getUniqueValues(cfg.vector1),
          getUniqueValues(getUniqueValues(cfg.vector1)))

\* deleteByValues with the values of vector2 as its arguments.
Delete ==
  Applied("deleteByValues", deleteByValues(cfg.vector1, Values(cfg.vector2)),
          deleteByValues(deleteByValues(cfg.vector1, Values(cfg.vector2)),
                         Values(cfg.vector2)))

VectorsNext == Intersect \/ Unique \/ Delete

SpecVectors == VectorsInit /\ [][VectorsNext]_vars

\* The number of times value occurs in vector.
occurrences(vector, value) ==
  Cardinality({i \in DOMAIN vector : vector[i] = value})

\* result is vector with its elements outside keep left out: the elements
\* of vector at the positions of values in keep, in that order.
leftWith(vector, keep, result) ==
  \E at \in [DOMAIN result -> DOMAIN vector] :
     /\ \A i, j \in DOMAIN result : i < j => at[i] < at[j]
     /\ \A i \in DOMAIN result : result[i] = vector[at[i]]
     /\ \A k \in DOMAIN vector :
           (vector[k] \in keep) <=> (\E i \in DOMAIN result : at[i] = k)

\* C38: intersectVectors(v1, v2) returns exactly the elements of v1 that
\* also occur in v2, in the order and with the multiplicity they have in v1;
\* it returns no element absent from either input, and the empty vector when
\* the inputs have no common value.
C38_IntersectVectors ==
  last.kind = "intersectVectors" =>
    /\ leftWith(cfg.vector1, Values(cfg.vector2), last.result)
    /\ \A value \in 0 .. MaxValue :
          occurrences(last.result, value) =
             IF vectorContains(cfg.vector2, value)
               THEN occurrences(cfg.vector1, value) ELSE 0
    /\ Values(last.result) \subseteq Values(cfg.vector1) \cap Values(cfg.vector2)
    /\ Values(cfg.vector1) \cap Values(cfg.vector2) = {} => last.result = <<>>

\* A common value occurs twice in vector1 and a value of vector1 is absent
\* from vector2.
C38_Witness ==
  /\ last.kind = "intersectVectors"
  /\ cfg.vector1 = <<1, 0, 1>> /\ cfg.vector2 = <<2, 1>>
  /\ last.result = <<1, 1>>

\* The position of the first occurrence of value in vector.
firstOccurrence(vector, value) ==
  CHOOSE i \in DOMAIN vector :
     vector[i] = value /\ \A k \in 1 .. i - 1 : vector[k] # value

\* C39: getUniqueValues returns every distinct value of its input exactly
\* once, in the order of first occurrence, and applied to its own result
\* returns it again; deleteByValues removes every occurrence of each given
\* value and keeps the other elements in their order.
C39_UniqueAndDelete ==
  /\ last.kind = "getUniqueValues" =>
        /\ Values(last.result) = Values(cfg.vector1)
        /\ \A value \in Values(cfg.vector1) : occurrences(last.result, value) = 1
        /\ \A i, j \in DOMAIN last.result :
              i < j => firstOccurrence(cfg.vector1, last.result[i])
                          < firstOccurrence(cfg.vector1, last.result[j])
        /\ last.again = last.result
  /\ last.kind = "deleteByValues" =>
        /\ leftWith(cfg.vector1, Values(cfg.vector1) \ Values(cfg.vector2),
                    last.result)
        /\ Values(last.result) \cap Values(cfg.vector2) = {}

\* A value whose first occurrence precedes that of another value and whose
\* last occurrence follows it.
C39_Witness ==
  /\ last.kind = "getUniqueValues"
  /\ cfg.vector1 = <<1, 0, 1>>
  /\ last.result = <<1, 0>>
=============================================================================
